---- MODULE Spec2Model ----
(***************************************************************************)
(* Dependency-graph viewer (src/app/page.tsx): the graph builder of        *)
(* loadData, the dagre layout wrapper getLayoutedElements, and the two     *)
(* data-load sequences of App (loadData, loadAnalysisData) with their      *)
(* cancellation flags.                                                     *)
(*                                                                         *)
(* A JavaScript string is a sequence of one-character strings, so that     *)
(* template literals are concatenations (\o) and two different pairs of    *)
(* strings can concatenate to the same text.  A JavaScript object is a     *)
(* record whose DOMAIN holds the keys that are present ("id" in el.data is *)
(* "id" \in DOMAIN el).  undefined is the one-token sequence Undefined,    *)
(* which no string equals.                                                 *)
(***************************************************************************)
EXTENDS Integers, Sequences, FiniteSets, TLC

(***************************************************************************)
(* Strings                                                                 *)
(***************************************************************************)
Undefined == <<"undefined">>

\* null, which no string and no node equals.
Null == <<"null">>

EmptyString == <<>>

\* JavaScript truthiness of an optional string: undefined and "" are falsy.
Truthy(s) == s # Undefined /\ s # EmptyString

\* obj.key, undefined when the key is absent.
Field(obj, key) == IF key \in DOMAIN obj THEN obj[key] ELSE Undefined

\* String(index) for a non-negative integer, in decimal.
Digit(d) == <<"0", "1", "2", "3", "4", "5", "6", "7", "8", "9">>[d + 1]

RECURSIVE NumberToString(_)
NumberToString(n) ==
    IF n < 10 THEN <<Digit(n)>>
    ELSE NumberToString(n \div 10) \o <<Digit(n % 10)>>

\* The first index at which pat occurs in s, 0 when it does not occur.
IndexOf(s, pat) ==
    LET starts == {i \in 1..(Len(s) - Len(pat) + 1) :
                      SubSeq(s, i, i + Len(pat) - 1) = pat}
    IN  IF starts = {} THEN 0
        ELSE CHOOSE i \in starts : \A j \in starts : i <= j

\* String.prototype.includes
Includes(s, pat) == IndexOf(s, pat) # 0

\* String.prototype.startsWith
StartsWith(s, pat) == Len(s) >= Len(pat) /\ SubSeq(s, 1, Len(pat)) = pat

\* s.replace(pat, ''): only the first occurrence is removed, wherever it is.
ReplaceFirstWithEmpty(s, pat) ==
    LET i == IndexOf(s, pat)
    IN  IF i = 0 THEN s
        ELSE SubSeq(s, 1, i - 1) \o SubSeq(s, i + Len(pat), Len(s))

\* s.split('/').pop(): the text after the last '/', the whole of s without one.
LastSegment(s) ==
    LET slashes == {i \in 1..Len(s) : s[i] = "/"}
    IN  IF slashes = {} THEN s
        ELSE SubSeq(s, (CHOOSE i \in slashes : \A j \in slashes : j <= i) + 1, Len(s))

(***************************************************************************)
(* String literals of page.tsx                                             *)
(***************************************************************************)
STR_github == <<"g", "i", "t", "h", "u", "b", ":">>

STR_arrow == <<"-", ">">>

STR_docker_api_ == <<"d", "o", "c", "k", "e", "r", "_", "a", "p", "i", "_">>

STR_docker_tool_ == <<"d", "o", "c", "k", "e", "r", "_", "t", "o", "o", "l", "_">>

STR_api_ == <<"a", "p", "i", "_">>

STR_underscore == <<"_">>

STR_docker_ == <<"d", "o", "c", "k", "e", "r", "_">>

STR_pages == <<"p", "a", "g", "e", "s", "/">>

STR_app == <<"a", "p", "p", "/">>

STR_components == <<"c", "o", "m", "p", "o", "n", "e", "n", "t", "s", "/">>

STR_utils == <<"u", "t", "i", "l", "s", "/">>

STR_lib == <<"l", "i", "b", "/">>

STR_hooks == <<"h", "o", "o", "k", "s", "/">>

STR_use == <<"u", "s", "e">>

STR_types == <<"t", "y", "p", "e", "s", "/">>

STR_dts == <<".", "d", ".", "t", "s">>

STR_api == <<"a", "p", "i", "/">>

STR_docker_integration == <<"d", "o", "c", "k", "e", "r", "_", "i", "n", "t", "e", "g", "r", "a", "t", "i", "o", "n">>

STR_docker_api_usage == <<"d", "o", "c", "k", "e", "r", "_", "a", "p", "i", "_", "u", "s", "a", "g", "e">>

STR_docker_tool_usage == <<"d", "o", "c", "k", "e", "r", "_", "t", "o", "o", "l", "_", "u", "s", "a", "g", "e">>

STR_docker_api == <<"d", "o", "c", "k", "e", "r", "_", "a", "p", "i">>

STR_docker_tool == <<"d", "o", "c", "k", "e", "r", "_", "t", "o", "o", "l">>

\* The keys of nameMap in getFriendlyDockerName; the translated texts are kept
\* as one token each, since no code looks inside them.
nameMap ==
    { <<<<"D", "o", "c", "k", "e", "r", "A", "I", "E", "d", "i", "t", "o", "r", "M", "a", "n", "a", "g", "e", "r">>,
        <<"friendly:DockerAIEditorManager">>>>,
      <<<<"c", "r", "e", "a", "t", "e", "D", "o", "c", "k", "e", "r", "T", "o", "o", "l", "k", "i", "t">>,
        <<"friendly:createDockerToolkit">>>>,
      <<<<"d", "o", "c", "k", "e", "r", "C", "o", "n", "f", "i", "g", "M", "a", "n", "a", "g", "e", "r", ".", "a", "u", "t", "o", "D", "e", "t", "e", "c", "t", "D", "o", "c", "k", "e", "r", "C", "o", "n", "t", "e", "x", "t">>,
        <<"friendly:dockerConfigManager.autoDetectDockerContext">>>>,
      <<<<"D", "o", "c", "k", "e", "r", "T", "o", "o", "l", "k", "i", "t">>,
        <<"friendly:DockerToolkit">>>>,
      <<<<"D", "o", "c", "k", "e", "r", "C", "o", "n", "t", "e", "x", "t">>,
        <<"friendly:DockerContext">>>>,
      <<<<"d", "o", "c", "k", "e", "r", "R", "e", "a", "d", "F", "i", "l", "e">>,
        <<"friendly:dockerReadFile">>>>,
      <<<<"d", "o", "c", "k", "e", "r", "W", "r", "i", "t", "e", "F", "i", "l", "e">>,
        <<"friendly:dockerWriteFile">>>>,
      <<<<"d", "o", "c", "k", "e", "r", "L", "i", "s", "t", "D", "i", "r", "e", "c", "t", "o", "r", "y">>,
        <<"friendly:dockerListDirectory">>>>,
      <<<<"d", "o", "c", "k", "e", "r", "F", "i", "n", "d", "F", "i", "l", "e", "s">>,
        <<"friendly:dockerFindFiles">>>>,
      <<<<"d", "o", "c", "k", "e", "r", "C", "h", "e", "c", "k", "P", "a", "t", "h", "E", "x", "i", "s", "t", "s">>,
        <<"friendly:dockerCheckPathExists">>>>,
      <<<<"d", "o", "c", "k", "e", "r", "G", "e", "t", "P", "r", "o", "j", "e", "c", "t", "I", "n", "f", "o">>,
        <<"friendly:dockerGetProjectInfo">>>>,
      <<<<"s", "e", "c", "u", "r", "i", "t", "y", "V", "a", "l", "i", "d", "a", "t", "o", "r">>,
        <<"friendly:securityValidator">>>>,
      <<<<"d", "o", "c", "k", "e", "r", "_", "s", "t", "a", "r", "t", "_", "d", "e", "v", "_", "s", "e", "r", "v", "e", "r">>,
        <<"friendly:docker_start_dev_server">>>>,
      <<<<"d", "o", "c", "k", "e", "r", "_", "r", "e", "s", "t", "a", "r", "t", "_", "d", "e", "v", "_", "s", "e", "r", "v", "e", "r">>,
        <<"friendly:docker_restart_dev_server">>>>,
      <<<<"d", "o", "c", "k", "e", "r", "_", "r", "e", "a", "d", "_", "l", "o", "g", "_", "t", "a", "i", "l">>,
        <<"friendly:docker_read_log_tail">>>>,
      <<<<"d", "o", "c", "k", "e", "r", "_", "c", "h", "e", "c", "k", "_", "h", "e", "a", "l", "t", "h">>,
        <<"friendly:docker_check_health">>>> }

(***************************************************************************)
(* File types, node type and node style                                    *)
(***************************************************************************)
KEY_pages == <<"p", "a", "g", "e", "s">>

KEY_components == <<"c", "o", "m", "p", "o", "n", "e", "n", "t", "s">>

KEY_utils == <<"u", "t", "i", "l", "s">>

KEY_lib == <<"l", "i", "b">>

KEY_hooks == <<"h", "o", "o", "k", "s">>

KEY_types == <<"t", "y", "p", "e", "s">>

KEY_api == <<"a", "p", "i">>

KEY_default == <<"d", "e", "f", "a", "u", "l", "t">>

KEY_docker_config == <<"d", "o", "c", "k", "e", "r", "_", "c", "o", "n", "f", "i", "g">>

KEY_docker_service == <<"d", "o", "c", "k", "e", "r", "_", "s", "e", "r", "v", "i", "c", "e">>

\* FILE_TYPES: key -> configuration (the icon is one token, an emoji).
FILE_TYPES ==
    (KEY_pages :> [color |-> "#16a34a", icon |-> "icon:pages", textColor |-> "#ffffff"]) @@
    (KEY_components :> [color |-> "#2563eb", icon |-> "icon:components", textColor |-> "#ffffff"]) @@
    (KEY_utils :> [color |-> "#64748b", icon |-> "icon:utils", textColor |-> "#ffffff"]) @@
    (KEY_lib :> [color |-> "#7c3aed", icon |-> "icon:lib", textColor |-> "#ffffff"]) @@
    (KEY_hooks :> [color |-> "#dc2626", icon |-> "icon:hooks", textColor |-> "#ffffff"]) @@
    (KEY_types :> [color |-> "#ea580c", icon |-> "icon:types", textColor |-> "#ffffff"]) @@
    (KEY_api :> [color |-> "#059669", icon |-> "icon:api", textColor |-> "#ffffff"]) @@
    (KEY_default :> [color |-> "#1f2937", icon |-> "icon:default", textColor |-> "#ffffff"]) @@
    (STR_docker_api :> [color |-> "#1e40af", icon |-> "icon:docker_api", textColor |-> "#ffffff"]) @@
    (STR_docker_tool :> [color |-> "#059669", icon |-> "icon:docker_tool", textColor |-> "#ffffff"]) @@
    (KEY_docker_config :> [color |-> "#d97706", icon |-> "icon:docker_config", textColor |-> "#ffffff"]) @@
    (KEY_docker_service :> [color |-> "#7c3aed", icon |-> "icon:docker_service", textColor |-> "#ffffff"])

\* Property names every object literal inherits from Object.prototype (two
\* of them): the in operator finds them in FILE_TYPES as it finds own keys.
InheritedKeys ==
    { <<"c", "o", "n", "s", "t", "r", "u", "c", "t", "o", "r">>,
      <<"t", "o", "S", "t", "r", "i", "n", "g">> }

\* FILE_TYPES[type] as far as its fields are read: an inherited property is a
\* function, whose color, icon and textColor are undefined.
ConfigOf(type) ==
    IF type \in DOMAIN FILE_TYPES THEN FILE_TYPES[type]
    ELSE [color |-> "undefined", icon |-> "undefined", textColor |-> "undefined"]

\* nameMap[name] || name
getFriendlyDockerName(name) ==
    IF \E row \in nameMap : row[1] = name
    THEN (CHOOSE row \in nameMap : row[1] = name)[2]
    ELSE name

\* The category of a node: an explicit node type that is in FILE_TYPES (own
\* or inherited key), else the first path pattern the id contains, else
\* "default".
getNodeType(id, nodeType) ==
    IF Truthy(nodeType) /\ nodeType \in (DOMAIN FILE_TYPES \cup InheritedKeys) THEN nodeType
    ELSE IF Includes(id, STR_pages) \/ Includes(id, STR_app) THEN KEY_pages
    ELSE IF Includes(id, STR_components) THEN KEY_components
    ELSE IF Includes(id, STR_utils) THEN KEY_utils
    ELSE IF Includes(id, STR_lib) THEN KEY_lib
    ELSE IF Includes(id, STR_hooks) \/ Includes(id, STR_use) THEN KEY_hooks
    ELSE IF Includes(id, STR_types) \/ Includes(id, STR_dts) THEN KEY_types
    ELSE IF Includes(id, STR_api) THEN KEY_api
    ELSE KEY_default

\* A getNodeStyle in which a dimmed node keeps its category colours.
getNodeStyleDimmedFirst(id, nodeType, isHighlighted, isFiltered) ==
    LET config == ConfigOf(getNodeType(id, nodeType))
        lit    == isHighlighted /\ ~isFiltered
    IN  [background |-> IF lit THEN "#fbbf24" ELSE config.color,
         color      |-> IF lit THEN "#000000" ELSE config.textColor,
         border     |-> IF lit THEN "3px solid #f59e0b"
                        ELSE "2px solid rgba(255,255,255,0.3)",
         opacity    |-> IF isFiltered THEN "0.3" ELSE "1"]

\* The style object of a node (the fields that depend on the arguments).
getNodeStyle(id, nodeType, isHighlighted, isFiltered) ==
    LET config == ConfigOf(getNodeType(id, nodeType))
    IN  [background |-> IF isHighlighted THEN "#fbbf24" ELSE config.color,
         color      |-> IF isHighlighted THEN "#000000" ELSE config.textColor,
         border     |-> IF isHighlighted THEN "3px solid #f59e0b"
                        ELSE "2px solid rgba(255,255,255,0.3)",
         opacity    |-> IF isFiltered THEN "0.3" ELSE "1"]

(***************************************************************************)
(* Graph builder: the synchronous part of loadData                         *)
(*                                                                         *)
(* nodeMap is a JavaScript Map: a sequence of nodes in insertion order     *)
(* with distinct ids.  edgeList is an array of edges.  A raw element is    *)
(* the record el.data.  The Docker analysis map is the sequence of its     *)
(* [fileKey, analysis] entries in Object.entries order, with distinct      *)
(* keys.                                                                   *)
(***************************************************************************)
Range(seq) == {seq[i] : i \in 1..Len(seq)}

\* A node list that is pushed to without looking for the id.
MapSetAlwaysAppends(nodeMap, node) == Append(nodeMap, node)

\* nodeMap.set(node.id, node): an existing key keeps its place and takes the
\* new value, a new key is appended.
MapSet(nodeMap, node) ==
    IF \E i \in 1..Len(nodeMap) : nodeMap[i].id = node.id
    THEN [i \in 1..Len(nodeMap) |->
             IF nodeMap[i].id = node.id THEN node ELSE nodeMap[i]]
    ELSE Append(nodeMap, node)

\* if (!edgeList.find(edge => edge.id === edgeId)) edgeList.push(edge)
PushIfNewId(edgeList, edge) ==
    IF \E i \in 1..Len(edgeList) : edgeList[i].id = edge.id
    THEN edgeList
    ELSE Append(edgeList, edge)

\* The node built from a raw element that has an id.
FileNode(el) ==
    LET id            == el.id
        nodeType      == Field(el, "type")
        providedLabel == Field(el, "label")
        type          == getNodeType(id, nodeType)
        config        == ConfigOf(type)
        tail          == LastSegment(id)
        label         == IF Truthy(providedLabel) THEN providedLabel
                         ELSE <<config.icon, " ">> \o
                              (IF tail # EmptyString THEN tail ELSE id)
    IN  [id       |-> id,
         data     |-> [label      |-> label,
                       fullPath   |-> id,
                       fileType   |-> type,
                       nodeType   |-> nodeType,
                       sourceFile |-> Field(el, "sourceFile")],
         position |-> [x |-> 0, y |-> 0],
         style    |-> getNodeStyle(id, nodeType, FALSE, FALSE)]

\* The edge built from a raw element that has a source and a target.
DependencyEdge(el) ==
    LET type == Field(el, "type")
    IN  [id       |-> el.source \o STR_arrow \o el.target,
         source   |-> el.source,
         target   |-> el.target,
         animated |-> (type = STR_docker_integration),
         style    |-> IF type = STR_docker_integration
                      THEN [stroke |-> "#3b82f6", strokeWidth |-> 3,
                            strokeDasharray |-> "5,5"]
                      ELSE [stroke |-> "#94a3b8", strokeWidth |-> 2],
         data     |-> [type |-> type]]

\* One iteration of data.forEach: acc is [nodeMap, edgeList] before it.
ProcessElement(acc, el) ==
    IF "id" \in DOMAIN el
    THEN [acc EXCEPT !.nodeMap = MapSet(acc.nodeMap, FileNode(el))]
    ELSE IF "source" \in DOMAIN el /\ "target" \in DOMAIN el
    THEN [acc EXCEPT !.edgeList = PushIfNewId(acc.edgeList, DependencyEdge(el))]
    ELSE acc

\* data.forEach over the first n elements, in order.
RECURSIVE ProcessElements(_, _, _)
ProcessElements(acc, data, n) ==
    IF n = 0 THEN acc
    ELSE ProcessElement(ProcessElements(acc, data, n - 1), data[n])

\* const apiName = api.name || api.apiType || `api_${index}`
ApiName(api, index) ==
    IF Truthy(Field(api, "name")) THEN api.name
    ELSE IF Truthy(Field(api, "apiType")) THEN api.apiType
    ELSE STR_api_ \o NumberToString(index)

\* `docker_api_${fileName}_${apiName}_${index}`
DockerApiId(fileName, apiName, index) ==
    STR_docker_api_ \o fileName \o STR_underscore \o apiName
                    \o STR_underscore \o NumberToString(index)

\* `docker_tool_${fileName}_${tool}_${index}`
DockerToolId(fileName, tool, index) ==
    STR_docker_tool_ \o fileName \o STR_underscore \o tool
                     \o STR_underscore \o NumberToString(index)

DockerApiNode(fileName, api, index) ==
    LET apiName      == ApiName(api, index)
        friendlyName == getFriendlyDockerName(apiName)
        dockerApiId  == DockerApiId(fileName, apiName, index)
    IN  [id       |-> dockerApiId,
         data     |-> [label      |-> <<"icon:docker_api", " ">> \o friendlyName,
                       fullPath   |-> dockerApiId,
                       fileType   |-> STR_docker_api,
                       nodeType   |-> STR_docker_api,
                       sourceFile |-> fileName,
                       dockerInfo |-> [apiName      |-> apiName,
                                       friendlyName |-> friendlyName,
                                       description  |-> Field(api, "description"),
                                       sourceFile   |-> fileName,
                                       originalApi  |-> api]],
         position |-> [x |-> 0, y |-> 0],
         style    |-> getNodeStyle(dockerApiId, STR_docker_api, FALSE, FALSE)]

DockerToolNode(fileName, tool, index) ==
    LET friendlyName == getFriendlyDockerName(tool)
        dockerToolId == DockerToolId(fileName, tool, index)
    IN  [id       |-> dockerToolId,
         data     |-> [label      |-> <<"icon:docker_tool", " ">> \o friendlyName,
                       fullPath   |-> dockerToolId,
                       fileType   |-> STR_docker_tool,
                       nodeType   |-> STR_docker_tool,
                       sourceFile |-> fileName,
                       dockerInfo |-> [tool         |-> tool,
                                       friendlyName |-> friendlyName,
                                       sourceFile   |-> fileName]],
         position |-> [x |-> 0, y |-> 0],
         style    |-> getNodeStyle(dockerToolId, STR_docker_tool, FALSE, FALSE)]

\* The edge from the owning file to a capability node.
CapabilityEdge(fileName, capabilityId, usage, stroke) ==
    [id       |-> fileName \o STR_arrow \o capabilityId,
     source   |-> fileName,
     target   |-> capabilityId,
     animated |-> TRUE,
     style    |-> [stroke |-> stroke, strokeWidth |-> 2, strokeDasharray |-> "3,3"],
     data     |-> [type |-> usage]]

\* One iteration of the dockerApis forEach, for the entry at index.
ProcessApi(acc, fileName, api, index) ==
    LET node == DockerApiNode(fileName, api, index)
        edge == CapabilityEdge(fileName, node.id, STR_docker_api_usage, "#1e40af")
    IN  [nodeMap  |-> MapSet(acc.nodeMap, node),
         edgeList |-> PushIfNewId(acc.edgeList, edge)]

\* (analysis.dockerApis || []).forEach over the first n entries (indexes
\* 0 .. n - 1).
RECURSIVE ProcessApis(_, _, _, _)
ProcessApis(acc, fileName, apis, n) ==
    IF n = 0 THEN acc
    ELSE ProcessApi(ProcessApis(acc, fileName, apis, n - 1), fileName, apis[n], n - 1)

\* One iteration of the dockerTools forEach, for the entry at index.
ProcessTool(acc, fileName, tool, index) ==
    LET node == DockerToolNode(fileName, tool, index)
        edge == CapabilityEdge(fileName, node.id, STR_docker_tool_usage, "#059669")
    IN  [nodeMap  |-> MapSet(acc.nodeMap, node),
         edgeList |-> PushIfNewId(acc.edgeList, edge)]

\* (analysis.dockerTools || []).forEach over the first n entries.
RECURSIVE ProcessTools(_, _, _, _)
ProcessTools(acc, fileName, tools, n) ==
    IF n = 0 THEN acc
    ELSE ProcessTool(ProcessTools(acc, fileName, tools, n - 1), fileName, tools[n], n - 1)

\* fileKey.replace('github:', '')
OwningFile(fileKey) == ReplaceFirstWithEmpty(fileKey, STR_github)

\* x || [] for an array field.
ArrayOrEmpty(analysis, key) == IF key \in DOMAIN analysis THEN analysis[key] ELSE <<>>

\* One iteration of Object.entries(dockerData || {}).forEach.
ProcessDockerEntry(acc, entry) ==
    LET fileKey  == entry[1]
        analysis == entry[2]
    IN  IF analysis.hasDockerIntegration
        THEN LET fileName == OwningFile(fileKey)
                 apis     == ArrayOrEmpty(analysis, "dockerApis")
                 tools    == ArrayOrEmpty(analysis, "dockerTools")
             IN  ProcessTools(ProcessApis(acc, fileName, apis, Len(apis)),
                              fileName, tools, Len(tools))
        ELSE acc

\* Object.entries(dockerData || {}).forEach over the first n entries.
RECURSIVE ProcessDockerEntries(_, _, _)
ProcessDockerEntries(acc, dockerData, n) ==
    IF n = 0 THEN acc
    ELSE ProcessDockerEntry(ProcessDockerEntries(acc, dockerData, n - 1), dockerData[n])

\* A null among the entries of a dockerApis array (a tagged record: records
\* and sequences cannot be compared).
NullEntry == [isNull |-> TRUE]

\* api.name on a null entry throws a TypeError inside the forEach.
BuildThrows(dockerData) ==
    \E i \in 1..Len(dockerData) :
        /\ dockerData[i][2].hasDockerIntegration
        /\ \E k \in 1..Len(ArrayOrEmpty(dockerData[i][2], "dockerApis")) :
               "isNull" \in DOMAIN ArrayOrEmpty(dockerData[i][2], "dockerApis")[k]

\* The graph loadData builds from the raw elements and the Docker analysis
\* map, before layout: [nodeMap, edgeList].
BuildGraph(data, dockerData) ==
    ProcessDockerEntries(
        ProcessElements([nodeMap |-> <<>>, edgeList |-> <<>>], data, Len(data)),
        dockerData, Len(dockerData))

(***************************************************************************)
(* Layout: getLayoutedElements over the module-level dagreGraph            *)
(*                                                                         *)
(* dagreGraph is [nodes, edges]: the node ids and the (v, w) pairs that    *)
(* are registered in the graphlib graph, each in insertion order.          *)
(***************************************************************************)
nodeWidth == 200

nodeHeight == 50

nodesep == 30

ranksep == 300

\* new dagre.graphlib.Graph()
EmptyDagreGraph == [nodes |-> <<>>, edges |-> <<>>]

\* The items that are not in known, each once, in the order of their first
\* occurrence.
FirstOccurrences(items, known) ==
    LET keep == {i \in 1..Len(items) :
                    /\ items[i] \notin known
                    /\ \A j \in 1..(i - 1) : items[j] # items[i]}
    IN  [k \in 1..Cardinality(keep) |->
            items[CHOOSE i \in keep : Cardinality({j \in keep : j < i}) = k - 1]]

\* nodes.forEach(node => dagreGraph.setNode(node.id, {width, height})): a node
\* that is registered already keeps its place.
RegisterNodes(g, nodeList) ==
    LET ids == [i \in 1..Len(nodeList) |-> nodeList[i].id]
    IN  [g EXCEPT !.nodes = @ \o FirstOccurrences(ids, Range(@))]

\* edges.forEach(edge => dagreGraph.setEdge(edge.source, edge.target)):
\* graphlib registers the source and then the target as nodes when they are
\* missing, and keeps one edge per (v, w).
RegisterEdges(g, edgeList) ==
    LET endpoints == [k \in 1..(2 * Len(edgeList)) |->
                         IF k % 2 = 1 THEN edgeList[(k + 1) \div 2].source
                         ELSE edgeList[k \div 2].target]
        pairs     == [i \in 1..Len(edgeList) |->
                         <<edgeList[i].source, edgeList[i].target>>]
    IN  [nodes |-> g.nodes \o FirstOccurrences(endpoints, Range(g.nodes)),
         edges |-> g.edges \o FirstOccurrences(pairs, Range(g.edges))]

\* The graph after the two forEach loops of getLayoutedElements.
RegisterAll(g, nodeList, edgeList) ==
    RegisterEdges(RegisterNodes(g, nodeList), edgeList)

Max(S) == CHOOSE m \in S : \A n \in S : n <= m

\* dagre.layout, rank assignment: the layer of a node is the length of the
\* longest chain of edges that leads to it without passing a node twice (so
\* that a cycle adds nothing to itself; self loops do not count).
RECURSIVE LongestChainTo(_, _, _)
LongestChainTo(g, v, visited) ==
    LET preds == {e[1] : e \in {e \in Range(g.edges) :
                                    e[2] = v /\ e[1] \notin visited \cup {v}}}
    IN  IF preds = {} THEN 0
        ELSE Max({LongestChainTo(g, u, visited \cup {v}) + 1 : u \in preds})

Rank(g, v) == LongestChainTo(g, v, {})

\* dagre.layout, ordering: the nodes of a layer are placed in the order in
\* which they were registered.
OrderInRank(g, v) ==
    LET at == CHOOSE i \in 1..Len(g.nodes) : g.nodes[i] = v
    IN  Cardinality({j \in 1..(at - 1) : Rank(g, g.nodes[j]) = Rank(g, v)})

\* dagreGraph.node(id) after dagre.layout with rankdir LR: the centre of the
\* node's box.
DagrePosition(g, v) ==
    [x |-> Rank(g, v) * (nodeWidth + ranksep) + nodeWidth \div 2,
     y |-> OrderInRank(g, v) * (nodeHeight + nodesep) + nodeHeight \div 2]

\* The nodes getLayoutedElements returns, g being dagreGraph after the
\* registrations: every passed node with the top-left corner of its box.
LayoutedNodes(g, nodeList) ==
    [i \in 1..Len(nodeList) |->
        LET pos == DagrePosition(g, nodeList[i].id)
        IN  [nodeList[i] EXCEPT
               !.position = [x |-> pos.x - nodeWidth \div 2,
                             y |-> pos.y - nodeHeight \div 2],
               !.style = [background |-> @.background, color |-> @.color,
                          border |-> @.border, opacity |-> @.opacity,
                          width |-> nodeWidth, height |-> nodeHeight]]]

(***************************************************************************)
(* Inputs: what the two data sources can return                            *)
(***************************************************************************)
MaxElems == 3

MaxEntries == 2

MaxGen == 2

ID_a == <<"a">>

ID_a_a == <<"a", "_", "a">>

ID_a_arrow_a == <<"a", "-", ">", "a">>

ID_a_arrow_a_a == <<"a", "-", ">", "a", "_", "a">>

KEY_github_a == STR_github \o ID_a

LABEL_X == <<"X">>

TEXT_d == <<"d">>

NAME_DockerToolkit == <<"D", "o", "c", "k", "e", "r", "T", "o", "o", "l", "k", "i", "t">>

\* Raw elements (el.data): node descriptors, edge descriptors, an element in
\* the scanner's edge format (id, source and target), the id of a
\* capability node given as a raw node, and an edge whose id reads like
\* that of a capability edge of the file "a->a".
ElementPool ==
    { [id |-> ID_a],
      [id |-> ID_a, label |-> LABEL_X, type |-> KEY_components, sourceFile |-> ID_a_a],
      [id |-> ID_a_a],
      [id |-> DockerApiId(ID_a, ID_a, 0), label |-> LABEL_X],
      [source |-> ID_a, target |-> ID_a_a],
      [source |-> ID_a, target |-> ID_a_a, type |-> STR_docker_integration],
      [source |-> ID_a_a, target |-> ID_a],
      [source |-> ID_a, target |-> ID_a_arrow_a],
      [source |-> ID_a_arrow_a, target |-> ID_a, type |-> STR_docker_integration],
      [id |-> ID_a_arrow_a_a, source |-> ID_a, target |-> ID_a_a],
      [source |-> ID_a, target |-> ID_a \o STR_arrow \o DockerToolId(ID_a_arrow_a, ID_a, 0)] }

\* All sequences over S of length at most n.
RECURSIVE SeqsUpTo(_, _)
SeqsUpTo(S, n) ==
    IF n = 0 THEN {<<>>}
    ELSE LET shorter == SeqsUpTo(S, n - 1)
         IN  shorter \cup {Append(q, x) : q \in shorter, x \in S}

ElementLists == SeqsUpTo(ElementPool, MaxElems)

\* Docker analysis results: with and without integration, with repeated
\* capability names, with an API entry that has neither name nor apiType,
\* with the array fields missing, and with a name of the translation table.
AnalysisPool ==
    { [hasDockerIntegration |-> FALSE, summary |-> TEXT_d,
       dockerApis |-> <<[name |-> ID_a, description |-> TEXT_d]>>,
       dockerTools |-> <<ID_a>>],
      [hasDockerIntegration |-> TRUE, summary |-> TEXT_d,
       dockerApis |-> <<[name |-> ID_a, description |-> TEXT_d]>>,
       dockerTools |-> <<>>],
      [hasDockerIntegration |-> TRUE, summary |-> TEXT_d,
       dockerApis |-> <<[name |-> ID_a_a, description |-> TEXT_d]>>,
       dockerTools |-> <<>>],
      [hasDockerIntegration |-> TRUE, summary |-> TEXT_d,
       dockerApis |-> <<[name |-> ID_a, description |-> TEXT_d],
                        [name |-> ID_a, description |-> TEXT_d]>>,
       dockerTools |-> <<ID_a>>],
      [hasDockerIntegration |-> TRUE, summary |-> TEXT_d,
       dockerApis |-> <<[description |-> TEXT_d]>>,
       dockerTools |-> <<ID_a_a>>],
      [hasDockerIntegration |-> TRUE, summary |-> TEXT_d,
       dockerApis |-> <<[apiType |-> ID_a, description |-> TEXT_d]>>,
       dockerTools |-> <<ID_a, ID_a>>],
      [hasDockerIntegration |-> TRUE, summary |-> TEXT_d],
      [hasDockerIntegration |-> TRUE, summary |-> TEXT_d,
       dockerApis |-> <<>>,
       dockerTools |-> <<NAME_DockerToolkit>>] }

FileKeyPool == {ID_a, ID_a_a, KEY_github_a, ID_a_arrow_a}

\* The entries of a JSON object have distinct keys.
DistinctKeys(map) ==
    \A i, j \in 1..Len(map) : i # j => map[i][1] # map[j][1]

DockerMaps ==
    {map \in SeqsUpTo(FileKeyPool \X AnalysisPool, MaxEntries) : DistinctKeys(map)}

\* The inputs of the builder checks: every element list with a few Docker
\* maps, and every Docker map with a few element lists.
FewDockerMaps ==
    { <<>>,
      << <<KEY_github_a, [hasDockerIntegration |-> TRUE, summary |-> TEXT_d,
                          dockerApis |-> <<[name |-> ID_a, description |-> TEXT_d]>>,
                          dockerTools |-> <<ID_a>>]>> >> }

FewElementLists ==
    { <<>>,
      <<[id |-> ID_a]>>,
      <<[id |-> ID_a], [id |-> ID_a_a], [source |-> ID_a, target |-> ID_a_a]>>,
      <<[id |-> ID_a],
        [source |-> ID_a, target |-> ID_a \o STR_arrow \o DockerToolId(ID_a_arrow_a, ID_a, 0)]>> }

BuildWorlds ==
    {[elements |-> data, docker |-> map] : data \in ElementLists, map \in FewDockerMaps}
    \cup
    {[elements |-> data, docker |-> map] : data \in FewElementLists, map \in DockerMaps}

\* The inputs of the life-cycle checks: a few contents the two sources can
\* have, between which the servers may change.
LifecycleWorlds ==
    { [elements |-> <<[id |-> ID_a], [id |-> ID_a_a],
                      [source |-> ID_a, target |-> ID_a_a]>>,
       docker   |-> <<>>],
      [elements |-> <<[id |-> ID_a]>>,
       docker   |-> << <<KEY_github_a,
                         [hasDockerIntegration |-> TRUE, summary |-> TEXT_d,
                          dockerApis |-> <<[apiType |-> ID_a, description |-> TEXT_d]>>,
                          dockerTools |-> <<ID_a>>]>> >>],
      [elements |-> <<[id |-> ID_a_a], [id |-> ID_a],
                      [source |-> ID_a_a, target |-> ID_a]>>,
       docker   |-> << <<ID_a_a,
                         [hasDockerIntegration |-> TRUE, summary |-> TEXT_d,
                          dockerApis |-> <<>>,
                          dockerTools |-> <<ID_a>>]>> >>] }

\* What /api/summaries and /api/analysis-stats return (display only).
ServerSummaries == << <<KEY_github_a, TEXT_d>> >>

StatsOf(map) ==
    [dockerIntegrationCount |->
         Cardinality({i \in 1..Len(map) : map[i][2].hasDockerIntegration}),
     totalAnalyzed |-> Len(map)]

(***************************************************************************)
(* State                                                                   *)
(***************************************************************************)
VARIABLES
    mounted,          \* useState(false), set by the first effect
    nodes,            \* useState<Node[]>: the positioned nodes
    edges,            \* useState<Edge[]>
    originalNodes,    \* useState<Node[]>: the nodes before layout
    fuse,             \* useState<Fuse | null>: <<>> or <<the indexed node list>>
    dockerAnalysis,   \* useState<Record<string, DockerAnalysisResult>>
    analysisStats,    \* useState<AnalysisStats | null>: <<>> or <<stats>>
    summaries,        \* useState<Record<string, string>>
    dagreGraph,       \* the module-level dagre graph
    generation,       \* how many times the two load effects have run
    loadDataRun,      \* per effect run: the loadData call and its isCancelled
    loadAnalysisRun,  \* per effect run: the loadAnalysisData call and its isCancelled
    serverElements,   \* what /cytoscape-elements.json holds
    serverDocker,     \* what /api/docker-analysis holds
    searchTerm,       \* useState("")
    searchResults,    \* useState<Node[]>([])
    showSearchResults,\* useState(false)
    highlightedNode,  \* useState<string | null>: Null or a node id
    selectedNode,     \* useState<Node | null>: <<>> or <<the node>>
    activeFilters,    \* useState<Set<keyof typeof FILE_TYPES>>
    showDockerOnly,   \* useState(false)
    showDockerNodes   \* useState(true)

\* The view state: what the search box, the filters and the clicks set.
view == <<searchTerm, searchResults, showSearchResults, highlightedNode, selectedNode,
          activeFilters, showDockerOnly, showDockerNodes>>

vars == <<mounted, nodes, edges, originalNodes, fuse, dockerAnalysis, analysisStats,
          summaries, dagreGraph, generation, loadDataRun, loadAnalysisRun,
          serverElements, serverDocker, view>>

appState == <<nodes, edges, originalNodes, fuse, dockerAnalysis, analysisStats, summaries>>

server == <<serverElements, serverDocker>>

Gens == 1..MaxGen

NotStarted == [pc |-> "notStarted", isCancelled |-> FALSE, dockerData |-> <<>>]

NoResponses == [summaries |-> <<>>, docker |-> <<>>, stats |-> <<>>]

\* The three requests of loadAnalysisData.
AnalysisSources == {"summaries", "docker", "stats"}

\* rejected: the request of the run whose promise rejected, if any.
AnalysisNotStarted ==
    [pc |-> "notStarted", isCancelled |-> FALSE, responses |-> NoResponses,
     rejected |-> {}]

\* The state after the first render, the servers holding the given contents.
InitWith(world) ==
    /\ mounted = FALSE
    /\ nodes = <<>>
    /\ edges = <<>>
    /\ originalNodes = <<>>
    /\ fuse = <<>>
    /\ dockerAnalysis = <<>>
    /\ analysisStats = <<>>
    /\ summaries = <<>>
    /\ dagreGraph = EmptyDagreGraph
    /\ generation = 0
    /\ loadDataRun = [g \in Gens |-> NotStarted]
    /\ loadAnalysisRun = [g \in Gens |-> AnalysisNotStarted]
    /\ serverElements = world.elements
    /\ serverDocker = world.docker
    /\ searchTerm = EmptyString
    /\ searchResults = <<>>
    /\ showSearchResults = FALSE
    /\ highlightedNode = Null
    /\ selectedNode = <<>>
    /\ activeFilters = {}
    /\ showDockerOnly = FALSE
    /\ showDockerNodes = TRUE

Init == \E world \in LifecycleWorlds : InitWith(world)

InitBuild == \E world \in BuildWorlds : InitWith(world)

(***************************************************************************)
(* Effects                                                                 *)
(***************************************************************************)
\* Both load effects run: each sets its own isCancelled = false and calls
\* its loader, which runs up to its first await.
StartLoaders(g) ==
    /\ loadDataRun' = [loadDataRun EXCEPT
                          ![g] = [pc |-> "awaitDocker", isCancelled |-> FALSE,
                                  dockerData |-> <<>>]]
    /\ loadAnalysisRun' = [loadAnalysisRun EXCEPT
                              ![g] = [pc |-> "awaitFetch", isCancelled |-> FALSE,
                                      responses |-> NoResponses, rejected |-> {}]]

\* useEffect(() => setMounted(true), []) followed by the first run of the two
\* load effects (their dependency mounted has changed).
SetMounted ==
    /\ ~mounted
    /\ mounted' = TRUE
    /\ generation' = 1
    /\ StartLoaders(1)
    /\ UNCHANGED <<appState, dagreGraph, server>>
    /\ UNCHANGED view

\* React cleans the two load effects up (isCancelled = true in each) and runs
\* them again on the same component, whose state is kept (as it does in
\* Strict Mode and on Fast Refresh).  The module-level dagreGraph is kept too.
EffectRerun ==
    /\ mounted
    /\ generation < MaxGen
    /\ generation' = generation + 1
    /\ loadDataRun' = [loadDataRun EXCEPT
                          ![generation].isCancelled = TRUE,
                          ![generation + 1] = [pc |-> "awaitDocker",
                                               isCancelled |-> FALSE,
                                               dockerData |-> <<>>]]
    /\ loadAnalysisRun' = [loadAnalysisRun EXCEPT
                              ![generation].isCancelled = TRUE,
                              ![generation + 1] = [pc |-> "awaitFetch",
                                                   isCancelled |-> FALSE,
                                                   responses |-> NoResponses,
                                                   rejected |-> {}]]
    /\ UNCHANGED <<mounted, appState, dagreGraph, server>>
    /\ UNCHANGED view

\* The external collaborators replace what the two sources hold.
ServerUpdate ==
    /\ \E world \in LifecycleWorlds :
          /\ <<world.elements, world.docker>> # <<serverElements, serverDocker>>
          /\ serverElements' = world.elements
          /\ serverDocker' = world.docker
    /\ UNCHANGED <<mounted, appState, dagreGraph, generation, loadDataRun, loadAnalysisRun>>
    /\ UNCHANGED view

(***************************************************************************)
(* loadData                                                                *)
(***************************************************************************)
\* The Docker analysis fetch and its json() resolve: dockerData is assigned
\* and stored with setDockerAnalysis.
LoadDataDockerOk(g) ==
    /\ loadDataRun[g].pc = "awaitDocker"
    /\ loadDataRun' = [loadDataRun EXCEPT ![g].pc = "awaitElements",
                                          ![g].dockerData = serverDocker]
    /\ dockerAnalysis' = serverDocker
    /\ UNCHANGED <<mounted, nodes, edges, originalNodes, fuse, analysisStats, summaries,
                   dagreGraph, generation, loadAnalysisRun, server>>
    /\ UNCHANGED view

\* A loadData with one try block around both fetches: a rejected Docker
\* analysis fetch ends the run in the catch that stores an empty graph.
LoadDataDockerFailBlocks(g) ==
    /\ loadDataRun[g].pc = "awaitDocker"
    /\ loadDataRun' = [loadDataRun EXCEPT ![g].pc = "failed"]
    /\ nodes' = <<>>
    /\ edges' = <<>>
    /\ originalNodes' = <<>>
    /\ UNCHANGED <<mounted, fuse, dockerAnalysis, analysisStats, summaries, dagreGraph,
                   generation, loadAnalysisRun, server>>
    /\ UNCHANGED view

\* The Docker analysis fetch or its json() rejects: the first catch logs, and
\* dockerData stays {}.
LoadDataDockerFail(g) ==
    /\ loadDataRun[g].pc = "awaitDocker"
    /\ loadDataRun' = [loadDataRun EXCEPT ![g].pc = "awaitElements"]
    /\ UNCHANGED <<mounted, appState, dagreGraph, generation, loadAnalysisRun, server>>
    /\ UNCHANGED view

\* The raw elements fetch and its json() resolve.  A cancelled run returns;
\* otherwise the graph is built, laid out and stored, and the search index
\* is built (no await separates these statements).  An exception thrown while
\* building lands in the same catch as a rejected fetch.
LoadDataElementsOk(g) ==
    /\ loadDataRun[g].pc = "awaitElements"
    /\ IF loadDataRun[g].isCancelled
       THEN /\ loadDataRun' = [loadDataRun EXCEPT ![g].pc = "cancelled"]
            /\ UNCHANGED <<appState, dagreGraph>>
       ELSE IF BuildThrows(loadDataRun[g].dockerData)
       THEN /\ loadDataRun' = [loadDataRun EXCEPT ![g].pc = "failed"]
            /\ nodes' = <<>>
            /\ edges' = <<>>
            /\ originalNodes' = <<>>
            /\ UNCHANGED <<fuse, dockerAnalysis, analysisStats, summaries, dagreGraph>>
       ELSE LET graph        == BuildGraph(serverElements, loadDataRun[g].dockerData)
                initialNodes == graph.nodeMap
                registered   == RegisterAll(dagreGraph, originalNodes', edges')
            IN  /\ loadDataRun' = [loadDataRun EXCEPT ![g].pc = "built"]
                /\ originalNodes' = initialNodes
                /\ edges' = graph.edgeList
                /\ dagreGraph' = registered
                /\ nodes' = LayoutedNodes(dagreGraph', originalNodes')
                /\ fuse' = <<originalNodes'>>
                /\ UNCHANGED <<dockerAnalysis, analysisStats, summaries>>
    /\ UNCHANGED <<mounted, generation, loadAnalysisRun, server>>
    /\ UNCHANGED view

\* The raw elements fetch or its json() rejects: the second catch stores an
\* empty graph.
LoadDataElementsFail(g) ==
    /\ loadDataRun[g].pc = "awaitElements"
    /\ loadDataRun' = [loadDataRun EXCEPT ![g].pc = "failed"]
    /\ nodes' = <<>>
    /\ edges' = <<>>
    /\ originalNodes' = <<>>
    /\ UNCHANGED <<mounted, fuse, dockerAnalysis, analysisStats, summaries, dagreGraph,
                   generation, loadAnalysisRun, server>>
    /\ UNCHANGED view

(***************************************************************************)
(* loadAnalysisData                                                        *)
(***************************************************************************)
\* Promise.all of the three fetches resolves; a cancelled run returns.
LoadAnalysisFetchOk(g) ==
    /\ loadAnalysisRun[g].pc = "awaitFetch"
    /\ loadAnalysisRun' =
          [loadAnalysisRun EXCEPT
              ![g].pc = IF loadAnalysisRun[g].isCancelled THEN "cancelled" ELSE "awaitJson",
              ![g].responses = [summaries |-> ServerSummaries,
                                docker    |-> serverDocker,
                                stats     |-> <<StatsOf(serverDocker)>>]]
    /\ UNCHANGED <<mounted, appState, dagreGraph, generation, loadDataRun, server>>
    /\ UNCHANGED view

\* One of the three fetches rejects while the others resolve: Promise.all
\* rejects and the catch logs.
LoadAnalysisFetchFail(g) ==
    /\ loadAnalysisRun[g].pc = "awaitFetch"
    /\ \E failing \in AnalysisSources :
          loadAnalysisRun' = [loadAnalysisRun EXCEPT ![g].pc = "failed",
                                                     ![g].rejected = {failing}]
    /\ UNCHANGED <<mounted, appState, dagreGraph, generation, loadDataRun, server>>
    /\ UNCHANGED view

\* Promise.all of the three json() calls resolves; a cancelled run returns,
\* otherwise the three results are stored.
LoadAnalysisJsonOk(g) ==
    /\ loadAnalysisRun[g].pc = "awaitJson"
    /\ IF loadAnalysisRun[g].isCancelled
       THEN /\ loadAnalysisRun' = [loadAnalysisRun EXCEPT ![g].pc = "cancelled"]
            /\ UNCHANGED <<summaries, dockerAnalysis, analysisStats>>
       ELSE /\ loadAnalysisRun' = [loadAnalysisRun EXCEPT ![g].pc = "stored"]
            /\ summaries' = loadAnalysisRun[g].responses.summaries
            /\ dockerAnalysis' = loadAnalysisRun[g].responses.docker
            /\ analysisStats' = loadAnalysisRun[g].responses.stats
    /\ UNCHANGED <<mounted, nodes, edges, originalNodes, fuse, dagreGraph, generation,
                   loadDataRun, server>>
    /\ UNCHANGED view

\* One of the three json() calls rejects while the others resolve:
\* Promise.all rejects and the catch logs.
LoadAnalysisJsonFail(g) ==
    /\ loadAnalysisRun[g].pc = "awaitJson"
    /\ \E failing \in AnalysisSources :
          loadAnalysisRun' = [loadAnalysisRun EXCEPT ![g].pc = "failed",
                                                     ![g].rejected = {failing}]
    /\ UNCHANGED <<mounted, appState, dagreGraph, generation, loadDataRun, server>>
    /\ UNCHANGED view

(***************************************************************************)
(* Specifications                                                          *)
(***************************************************************************)
LoadDataStep(g) ==
    \/ LoadDataDockerOk(g)
    \/ LoadDataDockerFail(g)
    \/ LoadDataElementsOk(g)
    \/ LoadDataElementsFail(g)

LoadAnalysisStep(g) ==
    \/ LoadAnalysisFetchOk(g)
    \/ LoadAnalysisFetchFail(g)
    \/ LoadAnalysisJsonOk(g)
    \/ LoadAnalysisJsonFail(g)

Next ==
    \/ SetMounted
    \/ EffectRerun
    \/ ServerUpdate
    \/ \E g \in Gens : LoadDataStep(g)
    \/ \E g \in Gens : LoadAnalysisStep(g)

\* The application over its life: effect reruns, servers that change.
Spec == Init /\ [][Next]_vars

\* One run of loadData over every input of BuildWorlds.
NextBuild ==
    \/ SetMounted
    \/ \E g \in Gens : LoadDataStep(g)

SpecBuild == InitBuild /\ [][NextBuild]_vars

(***************************************************************************)
(* Properties of the built graph                                           *)
(***************************************************************************)
NodeIds(nodeList) == {nodeList[i].id : i \in 1..Len(nodeList)}

\* The runs of loadData that have built and stored a graph.
BuiltRuns == {g \in Gens : loadDataRun[g].pc = "built"}

\* The raw elements the builder reads as node descriptors, as edge
\* descriptors.
IsNodeDescriptor(el) == "id" \in DOMAIN el

IsEdgeDescriptor(el) ==
    "id" \notin DOMAIN el /\ "source" \in DOMAIN el /\ "target" \in DOMAIN el

IsCapabilityNode(node) == node.data.fileType \in {STR_docker_api, STR_docker_tool}

IsCapabilityEdge(edge) == edge.data.type \in {STR_docker_api_usage, STR_docker_tool_usage}

\* C1: referential integrity.  Every edge of the stored graph has its source
\* and its target among the ids of the stored nodes (an edge descriptor whose
\* endpoint is missing is skipped).
C1_ReferentialIntegrity ==
    \A i \in 1..Len(edges) :
        /\ edges[i].source \in NodeIds(nodes)
        /\ edges[i].target \in NodeIds(nodes)

\* C2: uniqueness.  No two stored nodes share an id and no two stored edges
\* share an id, in the positioned nodes and in the nodes before layout.
C2_Uniqueness ==
    /\ \A i, j \in 1..Len(nodes) : nodes[i].id = nodes[j].id => i = j
    /\ \A i, j \in 1..Len(originalNodes) :
           originalNodes[i].id = originalNodes[j].id => i = j
    /\ \A i, j \in 1..Len(edges) : edges[i].id = edges[j].id => i = j

\* C2, the case: a graph with an edge has been built from raw elements that
\* give one node id twice.
C2_Witness ==
    /\ BuiltRuns # {}
    /\ \E i, j \in 1..Len(serverElements) :
          /\ i < j
          /\ IsNodeDescriptor(serverElements[i]) /\ IsNodeDescriptor(serverElements[j])
          /\ serverElements[i].id = serverElements[j].id
          /\ serverElements[i].id \in NodeIds(nodes)
    /\ Len(edges) >= 1

\* The entries of a Docker analysis map that have Docker integration.
IntegrationEntries(map) == {i \in 1..Len(map) : map[i][2].hasDockerIntegration}

\* The number of API and tool entries of an analysis.
CapabilityCount(analysis) ==
    Len(ArrayOrEmpty(analysis, "dockerApis")) + Len(ArrayOrEmpty(analysis, "dockerTools"))

RECURSIVE SumOver(_, _)
SumOver(S, f) ==
    IF S = {} THEN 0
    ELSE LET x == CHOOSE y \in S : TRUE
         IN  f[x] + SumOver(S \ {x}, f)

\* The files that own a capability in the map, and the number N of API and
\* tool entries that the map holds for a file (over all the keys that
\* resolve to it).
OwningFiles(map) == {OwningFile(map[i][1]) : i \in IntegrationEntries(map)}

CapabilityTotal(map, file) ==
    SumOver({i \in IntegrationEntries(map) : OwningFile(map[i][1]) = file},
            [i \in 1..Len(map) |-> CapabilityCount(map[i][2])])

\* C3: capability completeness.  After a build, for every file with Docker
\* integration and N API and tool entries, the stored graph has exactly N
\* capability nodes whose sourceFile is that file and exactly N capability
\* edges whose source is that file.
C3_CapabilityCompleteness ==
    \A g \in BuiltRuns :
        LET map == loadDataRun[g].dockerData
        IN  \A file \in OwningFiles(map) :
               /\ Cardinality({i \in 1..Len(nodes) :
                                 /\ IsCapabilityNode(nodes[i])
                                 /\ nodes[i].data.sourceFile = file})
                  = CapabilityTotal(map, file)
               /\ Cardinality({i \in 1..Len(edges) :
                                 /\ IsCapabilityEdge(edges[i])
                                 /\ edges[i].source = file})
                  = CapabilityTotal(map, file)

\* The capability entries of a map: <<kind, owning file, capability name,
\* ordinal index>>, and the node id the builder gives each.
CapabilityEntries(map) ==
    UNION {
        LET analysis == map[i][2]
            file     == OwningFile(map[i][1])
            apis     == ArrayOrEmpty(analysis, "dockerApis")
            tools    == ArrayOrEmpty(analysis, "dockerTools")
        IN  {<<"api", file, ApiName(apis[k], k - 1), k - 1>> : k \in 1..Len(apis)}
            \cup {<<"tool", file, tools[k], k - 1>> : k \in 1..Len(tools)}
        : i \in IntegrationEntries(map) }

CapabilityId(entry) ==
    IF entry[1] = "api" THEN DockerApiId(entry[2], entry[3], entry[4])
    ELSE DockerToolId(entry[2], entry[3], entry[4])

\* C4: the capability id is injective.  In a build, two capability entries
\* that differ in kind, owning file, name or index get different node ids, and
\* no capability id is the id of a node descriptor of the raw elements.
C4_CapabilityIdInjective ==
    \A g \in BuiltRuns :
        LET entries == CapabilityEntries(loadDataRun[g].dockerData)
        IN  /\ \A e1, e2 \in entries : e1 # e2 => CapabilityId(e1) # CapabilityId(e2)
            /\ \A e \in entries : \A i \in 1..Len(serverElements) :
                   IsNodeDescriptor(serverElements[i])
                       => serverElements[i].id # CapabilityId(e)

\* C5: after a build, every capability node has exactly one inbound edge, and
\* the source of that edge is the node's sourceFile.
C5_OneInboundEdge ==
    \A i \in 1..Len(nodes) :
        IsCapabilityNode(nodes[i]) =>
            LET inbound == {k \in 1..Len(edges) : edges[k].target = nodes[i].id}
            IN  /\ Cardinality(inbound) = 1
                /\ \A k \in inbound : edges[k].source = nodes[i].data.sourceFile

\* The edge descriptors of the raw elements that give the (source, target) of
\* the descriptor at index i.
SamePair(data, i) ==
    {k \in 1..Len(data) :
        /\ IsEdgeDescriptor(data[k])
        /\ data[k].source = data[i].source
        /\ data[k].target = data[i].target}

\* C6: when several edge descriptors give one (source, target), the stored
\* graph has exactly one edge with id source + "->" + target, and it has the
\* relation type, the style and the animation of the first of them.
C6_FirstEdgeDescriptorWins ==
    \A g \in BuiltRuns :
        \A i \in 1..Len(serverElements) :
            (IsEdgeDescriptor(serverElements[i])
             /\ Cardinality(SamePair(serverElements, i)) >= 2)
            => LET first    == CHOOSE k \in SamePair(serverElements, i) :
                                   \A m \in SamePair(serverElements, i) : k <= m
                   expected == DependencyEdge(serverElements[first])
                   found    == {k \in 1..Len(edges) : edges[k].id = expected.id}
               IN  /\ Cardinality(found) = 1
                   /\ \A k \in found : edges[k] = expected

\* C7: first write wins for nodes.  After a build, the stored node with the id
\* of a node descriptor has the label, the category and the source file of the
\* first descriptor with that id; a later descriptor and a capability node
\* with the same id are ignored.
C7_FirstNodeWriteWins ==
    \A g \in BuiltRuns :
        \A i \in 1..Len(serverElements) :
            (IsNodeDescriptor(serverElements[i])
             /\ \A j \in 1..(i - 1) :
                    IsNodeDescriptor(serverElements[j])
                        => serverElements[j].id # serverElements[i].id)
            => LET first == FileNode(serverElements[i])
               IN  \A k \in 1..Len(originalNodes) :
                       originalNodes[k].id = first.id =>
                           /\ originalNodes[k].data.label = first.data.label
                           /\ originalNodes[k].data.fileType = first.data.fileType
                           /\ originalNodes[k].data.sourceFile = first.data.sourceFile

(***************************************************************************)
(* Properties of the layout engine and of the load sequences               *)
(***************************************************************************)
\* Run g of loadData builds, lays out and stores a graph in this step.
BuildsIn(g) ==
    loadDataRun[g].pc = "awaitElements" /\ loadDataRun'[g].pc = "built"

\* What a build stores when nothing was laid out before it.
FirstBuild(data, dockerData) ==
    LET graph == BuildGraph(data, dockerData)
    IN  [originalNodes |-> graph.nodeMap,
         nodes |-> LayoutedNodes(RegisterAll(EmptyDagreGraph, graph.nodeMap,
                                             graph.edgeList),
                                 graph.nodeMap),
         edges |-> graph.edgeList]

\* C8: determinism.  A build stores the nodes, the edges and the coordinates
\* that the same raw elements and the same Docker map give when they are the
\* first build of a session: whatever was built or laid out before, equal
\* inputs give equal graphs and equal coordinates.
C8_BuildIsDeterministic ==
    [][\A g \in Gens :
          BuildsIn(g) =>
              LET first == FirstBuild(serverElements, loadDataRun[g].dockerData)
              IN  /\ originalNodes' = first.originalNodes
                  /\ edges' = first.edges
                  /\ nodes' = first.nodes]_vars

\* C9: the layout engine keeps no graph between calls.  When dagre.layout runs
\* in a build, the layout graph holds exactly what the nodes and the edges
\* passed to getLayoutedElements put into an empty graph: no node and no edge
\* is left over from an earlier call.
C9_LayoutGraphIsTheArguments ==
    [][\A g \in Gens :
          BuildsIn(g) =>
              LET fresh == RegisterAll(EmptyDagreGraph, originalNodes', edges')
              IN  /\ Range(dagreGraph'.nodes) = Range(fresh.nodes)
                  /\ Range(dagreGraph'.edges) = Range(fresh.edges)]_vars

\* C10: cancellation.  A step of a load sequence whose isCancelled is true
\* changes none of nodes, edges, originalNodes, the search index and
\* dockerAnalysis.
C10_NoWriteAfterCancel ==
    [][\A g \in Gens :
          (\/ loadDataRun[g].isCancelled /\ loadDataRun'[g] # loadDataRun[g]
           \/ loadAnalysisRun[g].isCancelled /\ loadAnalysisRun'[g] # loadAnalysisRun[g])
          => UNCHANGED <<nodes, edges, originalNodes, fuse, dockerAnalysis>>]_vars

(***************************************************************************)
(* Properties of the degraded loads                                        *)
(***************************************************************************)
\* Run g of loadData leaves its Docker analysis await with dockerData = {}
\* although the source holds a map: the fetch (or its json()) rejected.
DockerFetchFails(g) ==
    /\ loadDataRun[g].pc = "awaitDocker"
    /\ loadDataRun'[g].pc # "awaitDocker"
    /\ loadDataRun'[g].dockerData = <<>>
    /\ serverDocker # <<>>

\* The ids of the node descriptors and of the edge descriptors of raw elements.
RawNodeIds(data) == {data[i].id : i \in {j \in 1..Len(data) : IsNodeDescriptor(data[j])}}

RawEdgeIds(data) ==
    {data[i].source \o STR_arrow \o data[i].target :
        i \in {j \in 1..Len(data) : IsEdgeDescriptor(data[j])}}

\* C11: a failed Docker analysis fetch does not block the build.  The run goes
\* on to the raw elements fetch with an empty annotation map, and the graph it
\* then stores holds a node for every node descriptor and an edge for every
\* edge descriptor of the raw elements, and no capability node or edge.
C11_DockerFailureKeepsFileGraph ==
    [][\A g \in Gens :
          /\ DockerFetchFails(g) =>
                 /\ loadDataRun'[g].pc = "awaitElements"
                 /\ UNCHANGED <<nodes, edges, originalNodes>>
          /\ (BuildsIn(g) /\ loadDataRun[g].dockerData = <<>>) =>
                 /\ NodeIds(originalNodes') = RawNodeIds(serverElements)
                 /\ NodeIds(nodes') = RawNodeIds(serverElements)
                 /\ {edges'[i].id : i \in 1..Len(edges')} = RawEdgeIds(serverElements)
                 /\ \A i \in 1..Len(nodes') :
                        /\ ~IsCapabilityNode(nodes'[i])
                        /\ "dockerInfo" \notin DOMAIN nodes'[i].data
                 /\ \A i \in 1..Len(edges') : ~IsCapabilityEdge(edges'[i])]_vars

\* A build with file nodes and a dependency edge, stored by a run whose Docker
\* analysis fetch failed while the source held capabilities.
C11_Witness ==
    \E g \in BuiltRuns :
        /\ loadDataRun[g].dockerData = <<>>
        /\ CapabilityEntries(serverDocker) # {}
        /\ Len(nodes) >= 2
        /\ Len(edges) >= 1

\* Run g of loadAnalysisData ends in its catch in this step.
AnalysisFails(g) ==
    /\ loadAnalysisRun[g].pc \in {"awaitFetch", "awaitJson"}
    /\ loadAnalysisRun'[g].pc = "failed"

\* What the requests of run g that did not reject return: the bodies of the
\* responses it holds, or what the sources hold when it is still fetching.
AnalysisData(g) ==
    IF loadAnalysisRun[g].pc = "awaitJson" THEN loadAnalysisRun[g].responses
    ELSE [summaries |-> ServerSummaries,
          docker    |-> serverDocker,
          stats     |-> <<StatsOf(serverDocker)>>]

\* C12: the annotation fetches are degraded one by one.  When a run of
\* loadAnalysisData that is not cancelled fails because one request rejected,
\* the data of each other request is stored: summaries, dockerAnalysis and
\* analysisStats hold what the requests that succeeded returned.
C12_AnnotationFetchesDegradeIndividually ==
    [][\A g \in Gens :
          (AnalysisFails(g) /\ ~loadAnalysisRun[g].isCancelled) =>
              LET succeeded == AnalysisSources \ loadAnalysisRun'[g].rejected
                  data      == AnalysisData(g)
              IN  /\ "summaries" \in succeeded => summaries' = data.summaries
                  /\ "docker" \in succeeded => dockerAnalysis' = data.docker
                  /\ "stats" \in succeeded => analysisStats' = data.stats]_vars

\* The raw elements fetch of run g rejects in this step.
ElementsFetchFails(g) ==
    /\ loadDataRun[g].pc = "awaitElements"
    /\ loadDataRun'[g].pc = "failed"

\* C13: a failed raw elements fetch does not empty the graph.  When the
\* elements fetch of a run that is not cancelled fails after its Docker
\* analysis fetch succeeded, the stored graph holds the capability node and a
\* capability edge to it for every capability entry of the Docker map.
C13_ElementsFailureKeepsCapabilities ==
    [][\A g \in Gens :
          (ElementsFetchFails(g) /\ ~loadDataRun[g].isCancelled) =>
              \A entry \in CapabilityEntries(loadDataRun[g].dockerData) :
                  /\ CapabilityId(entry) \in NodeIds(nodes')
                  /\ \E i \in 1..Len(edges') :
                         /\ edges'[i].target = CapabilityId(entry)
                         /\ IsCapabilityEdge(edges'[i])]_vars

(***************************************************************************)
(* The view: search, filters, clicks, relayout and the displayed graph     *)
(*                                                                         *)
(* The file holds the page twice.  The loaders, toggleFilter, onNodeClick, *)
(* selectNodeAndMove and handleRelayout are the same in both; the second   *)
(* page adds showDockerOnly, showDockerNodes, toggleDockerFilter and the   *)
(* filter step of displayNodes (with showDockerOnly = false and            *)
(* showDockerNodes = true its displayNodes is that of the first page), and *)
(* has its own handleSearch, modelled as handleSearchSelect.               *)
(***************************************************************************)
UpperCase ==
    <<"A", "B", "C", "D", "E", "F", "G", "H", "I", "J", "K", "L", "M",
      "N", "O", "P", "Q", "R", "S", "T", "U", "V", "W", "X", "Y", "Z">>

LowerCase ==
    <<"a", "b", "c", "d", "e", "f", "g", "h", "i", "j", "k", "l", "m",
      "n", "o", "p", "q", "r", "s", "t", "u", "v", "w", "x", "y", "z">>

\* Fuse compares without regard to case (isCaseSensitive: false).
ToLowerCase(s) ==
    [i \in 1..Len(s) |->
        IF \E k \in 1..26 : UpperCase[k] = s[i]
        THEN LowerCase[CHOOSE k \in 1..26 : UpperCase[k] = s[i]]
        ELSE s[i]]

\* String.prototype.trim, for the white space " ".
Trim(s) ==
    LET inked == {i \in 1..Len(s) : s[i] # " "}
    IN  IF inked = {} THEN EmptyString
        ELSE SubSeq(s, CHOOSE i \in inked : \A j \in inked : i <= j,
                       CHOOSE i \in inked : \A j \in inked : j <= i)

\* The items of the index that fuse.search(term) returns: those whose
\* data.fullPath or data.label contains the term (for the short terms and
\* texts used here the threshold 0.3 admits no other match).
FuseMatches(index, term) ==
    SelectSeq(index,
              LAMBDA node :
                  \/ Includes(ToLowerCase(node.data.fullPath), ToLowerCase(term))
                  \/ Includes(ToLowerCase(node.data.label), ToLowerCase(term)))

\* Fuse sorts the matches by score: any match can come first; the others
\* follow in index order.
FuseResultsWithFirst(index, term, first) ==
    <<first>> \o SelectSeq(FuseMatches(index, term), LAMBDA node : node # first)

\* A toggle that forgets to delete.
ToggledFiltersOnlyAdds(filters, fileType) == filters \cup {fileType}

\* new Set(activeFilters) with fileType deleted when present, added when not.
ToggledFilters(filters, fileType) ==
    IF fileType \in filters THEN filters \ {fileType} ELSE filters \cup {fileType}

\* dockerAnalysis[key]: <<the analysis stored under the key>>, or <<>> for
\* undefined.
AnalysisAt(analysisMap, key) ==
    IF \E i \in 1..Len(analysisMap) : analysisMap[i][1] = key
    THEN <<analysisMap[CHOOSE i \in 1..Len(analysisMap) : analysisMap[i][1] = key][2]>>
    ELSE <<>>

\* node.data.nodeType?.startsWith('docker_')
isDockerNode(node) ==
    /\ node.data.nodeType # Undefined
    /\ StartsWith(node.data.nodeType, STR_docker_)

\* (dockerAnalysis[`github:${nodeId}`] || dockerAnalysis[nodeId])?.hasDockerIntegration
hasDockerIntegration(analysisMap, node) ==
    LET withGithub    == AnalysisAt(analysisMap, STR_github \o node.id)
        withoutGithub == AnalysisAt(analysisMap, node.id)
        dockerData    == IF withGithub # <<>> THEN withGithub ELSE withoutGithub
    IN  /\ dockerData # <<>>
        /\ dockerData[1].hasDockerIntegration

\* A filter callback without the Docker-node visibility test.
KeepsNodeWhateverVisibility(node, dockerOnly, dockerNodes, analysisMap) ==
    ~(dockerOnly /\ ~isDockerNode(node) /\ ~hasDockerIntegration(analysisMap, node))

\* The filter callback of displayNodes.
KeepsNode(node, dockerOnly, dockerNodes, analysisMap) ==
    IF dockerOnly /\ ~isDockerNode(node) /\ ~hasDockerIntegration(analysisMap, node)
    THEN FALSE
    ELSE IF isDockerNode(node) /\ ~dockerNodes THEN FALSE
    ELSE TRUE

\* An isFiltered argument without the test for an empty filter set.
IsFilteredOutEvenWhenEmpty(filters, node) ==
    getNodeType(node.id, node.data.nodeType) \notin filters

\* The isFiltered argument displayNodes passes to getNodeStyle.
IsFilteredOut(filters, node) ==
    filters # {} /\ getNodeType(node.id, node.data.nodeType) \notin filters

\* The map callback of displayNodes: the node with its style replaced.
StyledNode(node, highlighted, filters) ==
    [node EXCEPT !.style = getNodeStyle(node.id, node.data.nodeType,
                                        node.id = highlighted,
                                        IsFilteredOut(filters, node))]

\* displayNodes as a function of its dependencies.
DisplayNodesOf(nodeList, highlighted, filters, dockerOnly, dockerNodes, analysisMap) ==
    LET filtered == SelectSeq(nodeList,
                              LAMBDA node : KeepsNode(node, dockerOnly, dockerNodes,
                                                      analysisMap))
    IN  [i \in 1..Len(filtered) |-> StyledNode(filtered[i], highlighted, filters)]

\* The nodes and the edges handed to ReactFlow.
displayNodes ==
    DisplayNodesOf(nodes, highlightedNode, activeFilters, showDockerOnly,
                   showDockerNodes, dockerAnalysis)

displayEdges == edges

\* stats: the number of nodes of originalNodes per category.
stats(fileType) ==
    Cardinality({i \in 1..Len(originalNodes) :
                    getNodeType(originalNodes[i].id, originalNodes[i].data.nodeType)
                        = fileType})

\* What the user can type into the search box.
SearchTerms == {<<" ">>, <<"x">>}

baseGraph == <<nodes, edges, originalNodes, fuse, dockerAnalysis, dagreGraph>>

loaders == <<mounted, generation, loadDataRun, loadAnalysisRun, analysisStats, summaries,
             server>>

\* A handleSearch that clears the highlight when nothing matches.
handleSearchClearsOnMiss(term) ==
    /\ mounted
    /\ searchTerm' = term
    /\ IF Trim(term) = EmptyString \/ fuse = <<>> \/ FuseMatches(fuse[1], term) = <<>>
       THEN /\ highlightedNode' = Null
            /\ searchResults' = <<>>
            /\ showSearchResults' = FALSE
       ELSE \E k \in 1..Len(FuseMatches(fuse[1], term)) :
               /\ searchResults' =
                      FuseResultsWithFirst(fuse[1], term, FuseMatches(fuse[1], term)[k])
               /\ showSearchResults' = TRUE
               /\ highlightedNode' = FuseMatches(fuse[1], term)[k].id
    /\ UNCHANGED <<selectedNode, activeFilters, showDockerOnly, showDockerNodes>>
    /\ UNCHANGED <<baseGraph, loaders>>

\* handleSearch of the first page: an empty term or no index clears the
\* highlight and the results; otherwise the results are stored and the first
\* one is highlighted.
handleSearch(term) ==
    /\ mounted
    /\ searchTerm' = term
    /\ IF Trim(term) = EmptyString \/ fuse = <<>>
       THEN /\ highlightedNode' = Null
            /\ searchResults' = <<>>
            /\ showSearchResults' = FALSE
       ELSE LET matches == FuseMatches(fuse[1], term)
            IN  IF matches = <<>>
                THEN /\ searchResults' = <<>>
                     /\ showSearchResults' = FALSE
                     /\ UNCHANGED highlightedNode
                ELSE \E k \in 1..Len(matches) :
                        /\ searchResults' = FuseResultsWithFirst(fuse[1], term, matches[k])
                        /\ showSearchResults' = TRUE
                        /\ highlightedNode' = matches[k].id
    /\ UNCHANGED <<selectedNode, activeFilters, showDockerOnly, showDockerNodes>>
    /\ UNCHANGED <<baseGraph, loaders>>

\* handleSearch of the second page: an empty term or no index clears the
\* highlight; otherwise the first result is selected (selectNodeAndMove).
handleSearchSelect(term) ==
    /\ mounted
    /\ searchTerm' = term
    /\ IF Trim(term) = EmptyString \/ fuse = <<>>
       THEN /\ highlightedNode' = Null
            /\ UNCHANGED selectedNode
       ELSE LET matches == FuseMatches(fuse[1], term)
            IN  IF matches = <<>>
                THEN UNCHANGED <<highlightedNode, selectedNode>>
                ELSE \E k \in 1..Len(matches) :
                                      /\ selectedNode' = <<matches[k]>>
                        /\ highlightedNode' = matches[k].id
    /\ UNCHANGED <<searchResults, showSearchResults, activeFilters, showDockerOnly,
                   showDockerNodes>>
    /\ UNCHANGED <<baseGraph, loaders>>

\* A click on a row of the search results panel: selectNodeAndMove(node),
\* and the panel closes.
selectSearchResult ==
    /\ mounted
    /\ showSearchResults
    /\ \E k \in 1..Len(searchResults) :
          /\ selectedNode' = <<searchResults[k]>>
          /\ highlightedNode' = searchResults[k].id
    /\ showSearchResults' = FALSE
    /\ UNCHANGED <<searchTerm, searchResults, activeFilters, showDockerOnly,
                   showDockerNodes>>
    /\ UNCHANGED <<baseGraph, loaders>>

\* A click on a category button; FileTypeFilters shows a button for each
\* category that stats counts at least once.
toggleFilter ==
    /\ mounted
    /\ \E fileType \in DOMAIN FILE_TYPES :
          /\ stats(fileType) > 0
          /\ activeFilters' = ToggledFilters(activeFilters, fileType)
    /\ UNCHANGED <<searchTerm, searchResults, showSearchResults, highlightedNode,
                   selectedNode, showDockerOnly, showDockerNodes>>
    /\ UNCHANGED <<baseGraph, loaders>>

\* The two Docker flags after toggleDockerFilter(type).
ToggledDockerFlags(type, dockerOnly, dockerNodes) ==
    IF type = "files"
    THEN [showDockerOnly |-> ~dockerOnly, showDockerNodes |-> dockerNodes]
    ELSE [showDockerOnly |-> dockerOnly, showDockerNodes |-> ~dockerNodes]

\* A click on one of the two buttons of DockerFilters.
toggleDockerFilter(type) ==
    /\ mounted
    /\ showDockerOnly' = ToggledDockerFlags(type, showDockerOnly, showDockerNodes).showDockerOnly
    /\ showDockerNodes' = ToggledDockerFlags(type, showDockerOnly, showDockerNodes).showDockerNodes
    /\ UNCHANGED <<searchTerm, searchResults, showSearchResults, highlightedNode,
                   selectedNode, activeFilters>>
    /\ UNCHANGED <<baseGraph, loaders>>

\* An onNodeClick that writes the displayed nodes back into nodes.
onNodeClickStoresView ==
    /\ mounted
    /\ \E k \in 1..Len(displayNodes) :
          /\ selectedNode' = <<displayNodes[k]>>
          /\ highlightedNode' = displayNodes[k].id
    /\ nodes' = displayNodes
    /\ UNCHANGED <<searchTerm, searchResults, showSearchResults, activeFilters,
                   showDockerOnly, showDockerNodes>>
    /\ UNCHANGED <<edges, originalNodes, fuse, dockerAnalysis, dagreGraph, loaders>>

\* A click on a displayed node.
onNodeClick ==
    /\ mounted
    /\ \E k \in 1..Len(displayNodes) :
          /\ selectedNode' = <<displayNodes[k]>>
          /\ highlightedNode' = displayNodes[k].id
    /\ UNCHANGED <<searchTerm, searchResults, showSearchResults, activeFilters,
                   showDockerOnly, showDockerNodes>>
    /\ UNCHANGED <<baseGraph, loaders>>

\* The close button of the node panel: setSelectedNode(null).
closeNodePanel ==
    /\ mounted
    /\ selectedNode # <<>>
    /\ selectedNode' = <<>>
    /\ UNCHANGED <<searchTerm, searchResults, showSearchResults, highlightedNode,
                   activeFilters, showDockerOnly, showDockerNodes>>
    /\ UNCHANGED <<baseGraph, loaders>>

\* A click on a row of the related-files list of the node panel: the row's
\* edge is one of the first five incident to the selected node, the other
\* endpoint is looked up in nodes and, when found, selectNodeAndMove(node).
selectRelatedFile ==
    /\ mounted
    /\ selectedNode # <<>>
    /\ LET incident == SelectSeq(edges, LAMBDA edge : \/ edge.source = selectedNode[1].id
                                                     \/ edge.target = selectedNode[1].id)
       IN  \E r \in 1..Len(incident) :
              /\ r <= 5
              /\ LET relatedId == IF incident[r].source = selectedNode[1].id
                                  THEN incident[r].target ELSE incident[r].source
                     found     == SelectSeq(nodes, LAMBDA n : n.id = relatedId)
                 IN  IF found = <<>>
                     THEN UNCHANGED <<selectedNode, highlightedNode>>
                     ELSE /\ selectedNode' = <<found[1]>>
                          /\ highlightedNode' = found[1].id
    /\ UNCHANGED <<searchTerm, searchResults, showSearchResults, activeFilters,
                   showDockerOnly, showDockerNodes>>
    /\ UNCHANGED <<baseGraph, loaders>>

\* The nodes handleRelayout stores: getLayoutedElements(nodes, edges).nodes.
RelayoutedNodes == LayoutedNodes(RegisterAll(dagreGraph, nodes, edges), nodes)

\* handleRelayout: getLayoutedElements(nodes, edges) on the module-level
\* graph, and setNodes with the positioned nodes.
handleRelayout ==
    /\ mounted
    /\ dagreGraph' = RegisterAll(dagreGraph, nodes, edges)
    /\ nodes' = RelayoutedNodes
    /\ UNCHANGED <<edges, originalNodes, fuse, dockerAnalysis>>
    /\ UNCHANGED <<loaders, view>>

\* The events that only change the view state.
ViewStep ==
    \/ \E term \in SearchTerms : handleSearch(term)
    \/ \E term \in SearchTerms : handleSearchSelect(term)
    \/ selectSearchResult
    \/ toggleFilter
    \/ \E type \in {"files", "nodes"} : toggleDockerFilter(type)
    \/ onNodeClick
    \/ selectRelatedFile
    \/ closeNodePanel

\* The inputs of the view checks: file nodes of two categories, one with a
\* Docker record and a capability; and a file whose record is stored under
\* both key formats, beside a raw node whose type is a Docker category.
ViewWorlds ==
    { [elements |-> <<[id |-> ID_a],
                      [id |-> ID_a_a, label |-> LABEL_X, type |-> KEY_components],
                      [source |-> ID_a, target |-> ID_a_a]>>,
       docker   |-> << <<KEY_github_a,
                         [hasDockerIntegration |-> TRUE, summary |-> TEXT_d,
                          dockerApis |-> <<>>,
                          dockerTools |-> <<ID_a>>]>> >>],
      [elements |-> <<[id |-> ID_a],
                      [id |-> ID_a_a, type |-> KEY_docker_config],
                      [source |-> ID_a_a, target |-> ID_a]>>,
       docker   |-> << <<KEY_github_a,
                         [hasDockerIntegration |-> FALSE, summary |-> TEXT_d]>>,
                       <<ID_a,
                         [hasDockerIntegration |-> TRUE, summary |-> TEXT_d,
                          dockerApis |-> <<>>,
                          dockerTools |-> <<NAME_DockerToolkit>>]>> >>] }

InitView == \E world \in ViewWorlds : InitWith(world)

NextView ==
    \/ SetMounted
    \/ \E g \in Gens : LoadDataStep(g)
    \/ ViewStep
    \/ handleRelayout

\* One run of loadData, then the user's events on the page.
SpecView == InitView /\ [][NextView]_vars

(***************************************************************************)
(* Properties of the displayed graph                                       *)
(***************************************************************************)
DisplayedIds == NodeIds(displayNodes)

\* The Docker analysis map holds a record with hasDockerIntegration = true
\* for the file, under the plain id or under the id with the prefix.
HasIntegrationRecord(analysisMap, id) ==
    \E i \in 1..Len(analysisMap) :
        /\ analysisMap[i][1] \in {id, STR_github \o id}
        /\ analysisMap[i][2].hasDockerIntegration

HighlightBackground == "#fbbf24"

DimmedOpacity == "0.3"

\* C14: the Docker-only filter.  While showDockerOnly is set, a node of the
\* base graph is displayed if and only if it is a capability node or the
\* Docker analysis map holds an integration record for its file under either
\* key format, and it is not a capability node hidden by showDockerNodes.
C14_DockerOnlyFilter ==
    showDockerOnly =>
        \A i \in 1..Len(nodes) :
            (nodes[i].id \in DisplayedIds) <=>
                /\ \/ IsCapabilityNode(nodes[i])
                   \/ HasIntegrationRecord(dockerAnalysis, nodes[i].id)
                /\ ~(IsCapabilityNode(nodes[i]) /\ ~showDockerNodes)

\* C15: every edge handed to the rendering surface has both its endpoints
\* among the displayed nodes.
C15_DisplayedEdgesHaveDisplayedEndpoints ==
    \A i \in 1..Len(displayEdges) :
        /\ displayEdges[i].source \in DisplayedIds
        /\ displayEdges[i].target \in DisplayedIds

\* C16: the Docker-node visibility flag.  While showDockerNodes is false no
\* capability node is displayed, whatever the other view state; while it is
\* true and showDockerOnly is false, every capability node of the base graph
\* is displayed.
C16_DockerNodeVisibility ==
    /\ ~showDockerNodes =>
           \A i \in 1..Len(displayNodes) : ~IsCapabilityNode(displayNodes[i])
    /\ (showDockerNodes /\ ~showDockerOnly) =>
           \A i \in 1..Len(nodes) :
               IsCapabilityNode(nodes[i]) => nodes[i].id \in DisplayedIds

\* The base graph holds a capability node, it is hidden by showDockerNodes,
\* and a category filter and a highlight are set.
C16_Witness ==
    /\ ~showDockerNodes
    /\ \E i \in 1..Len(nodes) : IsCapabilityNode(nodes[i])
    /\ activeFilters # {}
    /\ highlightedNode # Null

\* C17: the category filter only dims.  The displayed node set is the one an
\* empty filter set gives, and a displayed node is dimmed if and only if the
\* filter set is non-empty and does not hold the category of the node (so
\* with an empty filter set no node is dimmed).
C17_CategoryFilterOnlyDims ==
    /\ DisplayedIds =
           NodeIds(DisplayNodesOf(nodes, highlightedNode, {}, showDockerOnly,
                                  showDockerNodes, dockerAnalysis))
    /\ \A i \in 1..Len(displayNodes) :
           (displayNodes[i].style.opacity = DimmedOpacity) <=>
               (activeFilters # {} /\ displayNodes[i].data.fileType \notin activeFilters)

\* A category filter is set; one displayed node is dimmed and another is not.
C17_Witness ==
    /\ activeFilters # {}
    /\ \E i, j \in 1..Len(displayNodes) :
           /\ displayNodes[i].style.opacity = DimmedOpacity
           /\ displayNodes[j].style.opacity # DimmedOpacity

\* C18: toggling twice restores the view.  From every state, two calls of
\* toggleFilter with the same category, and two calls of toggleDockerFilter
\* with the same type, give the displayed nodes (ids, styles, dimmed flags)
\* of the state before the first call.
C18_ToggleTwiceRestores ==
    /\ \A fileType \in DOMAIN FILE_TYPES :
           DisplayNodesOf(nodes, highlightedNode,
                          ToggledFilters(ToggledFilters(activeFilters, fileType), fileType),
                          showDockerOnly, showDockerNodes, dockerAnalysis)
               = displayNodes
    /\ \A type \in {"files", "nodes"} :
           LET once  == ToggledDockerFlags(type, showDockerOnly, showDockerNodes)
               twice == ToggledDockerFlags(type, once.showDockerOnly, once.showDockerNodes)
           IN  /\ once # [showDockerOnly |-> showDockerOnly,
                          showDockerNodes |-> showDockerNodes]
               /\ DisplayNodesOf(nodes, highlightedNode, activeFilters,
                                 twice.showDockerOnly, twice.showDockerNodes,
                                 dockerAnalysis)
                      = displayNodes

\* Filters have been toggled on: a category is set, both Docker flags are
\* away from their initial values, and the view hides and dims nodes.
C18_Witness ==
    /\ activeFilters # {}
    /\ showDockerOnly
    /\ ~showDockerNodes
    /\ Len(displayNodes) < Len(nodes)
    /\ \E i \in 1..Len(displayNodes) : displayNodes[i].style.opacity = DimmedOpacity

\* C19: the view-state events leave the base graph alone.  A step of
\* handleSearch, selectSearchResult, toggleFilter, toggleDockerFilter,
\* onNodeClick or the panel's close button changes none of nodes, edges and
\* originalNodes.
C19_ViewEventsKeepBaseGraph ==
    [][ViewStep => UNCHANGED <<nodes, edges, originalNodes>>]_vars

\* A built graph, with every part of the view state changed by an event.
C19_Witness ==
    /\ nodes # <<>>
    /\ edges # <<>>
    /\ searchTerm # EmptyString
    /\ highlightedNode # Null
    /\ selectedNode # <<>>
    /\ activeFilters # {}
    /\ showDockerOnly
    /\ ~showDockerNodes

\* C20: the highlight.  A displayed node has the highlighted background if
\* and only if its id is highlightedNode, dimmed or not; so at most one
\* displayed node is highlighted, and none while highlightedNode is null.
C20_HighlightFollowsHighlightedNode ==
    /\ \A i \in 1..Len(displayNodes) :
           (displayNodes[i].style.background = HighlightBackground) <=>
               (displayNodes[i].id = highlightedNode)
    /\ Cardinality({i \in 1..Len(displayNodes) :
                       displayNodes[i].style.background = HighlightBackground}) <= 1
    /\ highlightedNode = Null =>
           \A i \in 1..Len(displayNodes) :
               displayNodes[i].style.background # HighlightBackground

\* The highlighted node is displayed and dimmed by the category filter.
C20_Witness ==
    \E i \in 1..Len(displayNodes) :
        /\ displayNodes[i].id = highlightedNode
        /\ displayNodes[i].style.opacity = DimmedOpacity
        /\ displayNodes[i].style.background = HighlightBackground

(***************************************************************************)
(* Properties of selection, relayout and category resolution               *)
(***************************************************************************)
\* C21: a selection exposes the layout position.  On every step that selects
\* a node (from the results panel, from a search that selects its first
\* match, from the related-files list, from a click), the position of the
\* node stored in selectedNode, which is the one the camera is centred on,
\* is the position of the node with that id in the positioned nodes.
C21_SelectionExposesLayoutPosition ==
    [][(selectedNode' # selectedNode /\ selectedNode' # <<>>) =>
          \E i \in 1..Len(nodes') :
              /\ nodes'[i].id = selectedNode'[1].id
              /\ nodes'[i].position = selectedNode'[1].position]_vars

\* The edges both of whose endpoints are displayed.
EdgesAmongDisplayed ==
    SelectSeq(edges, LAMBDA edge : edge.source \in DisplayedIds /\ edge.target \in DisplayedIds)

\* The layout of the displayed nodes and the edges among them, on their own.
LayoutOfDisplayed ==
    LayoutedNodes(RegisterAll(EmptyDagreGraph, displayNodes, EdgesAmongDisplayed),
                  displayNodes)

\* C22: a relayout uses the displayed graph.  In every state with a built
\* graph, the coordinates a relayout request would store for a displayed
\* node are those of a layout of the displayed nodes and the edges among
\* them (the set left by the two Docker filters), not of all stored nodes.
C22_RelayoutUsesDisplayedGraph ==
    \A i \in 1..Len(RelayoutedNodes) :
        \A j \in 1..Len(LayoutOfDisplayed) :
            RelayoutedNodes[i].id = LayoutOfDisplayed[j].id =>
                RelayoutedNodes[i].position = LayoutOfDisplayed[j].position

\* Ids for the category checks: one or two of the path patterns and a plain
\* letter, in every order.
IdFragments ==
    {STR_pages, STR_app, STR_components, STR_utils, STR_lib, STR_hooks, STR_use,
     STR_types, STR_dts, STR_api, ID_a}

CategoryIds == IdFragments \cup {f \o h : f, h \in IdFragments}

\* The type field of a raw node: absent, empty, a file category, a Docker
\* category, an unknown word, and a name every object inherits.
CategoryElements ==
    {[id |-> id] : id \in CategoryIds}
    \cup
    {[id |-> id, type |-> nodeType] :
        id \in CategoryIds,
        nodeType \in {EmptyString, KEY_components, STR_docker_api, LABEL_X} \cup InheritedKeys}

InitCategory ==
    \E el \in CategoryElements : InitWith([elements |-> <<el>>, docker |-> <<>>])

\* One build of a single raw node.
SpecCategory == InitCategory /\ [][NextBuild]_vars

\* The path patterns in their order of priority, each with its category.
PatternPriority ==
    << <<KEY_pages, {STR_pages, STR_app}>>,
       <<KEY_components, {STR_components}>>,
       <<KEY_utils, {STR_utils}>>,
       <<KEY_lib, {STR_lib}>>,
       <<KEY_hooks, {STR_hooks, STR_use}>>,
       <<KEY_types, {STR_types, STR_dts}>>,
       <<KEY_api, {STR_api}>> >>

MatchingPatterns(id) ==
    {k \in 1..Len(PatternPriority) : \E pat \in PatternPriority[k][2] : Includes(id, pat)}

\* The category the resolution rule gives.
ResolvedCategory(id, nodeType) ==
    IF nodeType \in DOMAIN FILE_TYPES THEN nodeType
    ELSE IF MatchingPatterns(id) = {} THEN KEY_default
    ELSE PatternPriority[CHOOSE k \in MatchingPatterns(id) :
                             \A other \in MatchingPatterns(id) : k <= other][1]

\* C23: category resolution.  Every built file node has the category its
\* descriptor names when that is a known category, and otherwise the
\* category of the first pattern, in the order pages, components, utils,
\* lib, hooks, types, api, that its id contains, or the default category
\* when it contains none.
C23_CategoryResolution ==
    \A i \in 1..Len(originalNodes) :
        originalNodes[i].data.fileType =
            ResolvedCategory(originalNodes[i].id, originalNodes[i].data.nodeType)

(***************************************************************************)
(* Properties of malformed and unowned Docker entries                      *)
(***************************************************************************)
MaxApis == 2

\* Entries of a dockerApis array: complete, with only one of the two names,
\* with neither, with both empty, and a null.
ApiEntryPool ==
    { [name |-> ID_a, description |-> TEXT_d],
      [apiType |-> ID_a, description |-> TEXT_d],
      [description |-> TEXT_d],
      [name |-> EmptyString, apiType |-> EmptyString],
      NullEntry }

MalformedAnalyses ==
    {[hasDockerIntegration |-> TRUE, summary |-> TEXT_d, dockerApis |-> apis,
      dockerTools |-> tools] :
        apis \in SeqsUpTo(ApiEntryPool, MaxApis) \ {<<>>}, tools \in {<<>>, <<ID_a>>}}

\* One entry with such an array, alone or after a well-formed entry.
MalformedMaps ==
    { << <<fileKey, analysis>> >> : fileKey \in FileKeyPool, analysis \in MalformedAnalyses }
    \cup
    { << <<KEY_github_a, [hasDockerIntegration |-> TRUE, summary |-> TEXT_d,
                          dockerApis |-> <<[name |-> ID_a_a, description |-> TEXT_d]>>,
                          dockerTools |-> <<NAME_DockerToolkit>>]>>,
         <<ID_a_a, analysis>> >> : analysis \in MalformedAnalyses }

InitMalformed ==
    \E data \in FewElementLists, map \in MalformedMaps :
        InitWith([elements |-> data, docker |-> map])

SpecMalformed == InitMalformed /\ [][NextBuild]_vars

\* The API entries without a usable name: <<owning file, index>>.
NamelessApis(map) ==
    UNION {
        LET apis == ArrayOrEmpty(map[i][2], "dockerApis")
        IN  {<<OwningFile(map[i][1]), k - 1>> :
                k \in {n \in 1..Len(apis) : /\ ~Truthy(Field(apis[n], "name"))
                                            /\ ~Truthy(Field(apis[n], "apiType"))}}
        : i \in IntegrationEntries(map) }

\* C24: a malformed API entry does not fail the build.  When the raw elements
\* arrive in a run that was not cancelled, the run builds a graph in which
\* every API entry with neither name nor apiType has a capability node named
\* "api_" and its index, and every node descriptor, edge descriptor and
\* capability entry of the inputs has its node or edge.
C24_MalformedApiEntryKeepsBuild ==
    [][\A g \in Gens :
          (LoadDataElementsOk(g) /\ ~loadDataRun[g].isCancelled) =>
              LET map == loadDataRun[g].dockerData
              IN  /\ loadDataRun'[g].pc = "built"
                  /\ \A e \in NamelessApis(map) :
                         \E i \in 1..Len(nodes') :
                             /\ nodes'[i].id =
                                    DockerApiId(e[1], STR_api_ \o NumberToString(e[2]), e[2])
                             /\ nodes'[i].data.dockerInfo.apiName =
                                    STR_api_ \o NumberToString(e[2])
                  /\ RawNodeIds(serverElements) \subseteq NodeIds(nodes')
                  /\ RawEdgeIds(serverElements) \subseteq {edges'[i].id : i \in 1..Len(edges')}
                  /\ \A e \in CapabilityEntries(map) : CapabilityId(e) \in NodeIds(nodes')]_vars

\* The integration entries of a map whose owning file is no raw node.
UnownedEntries(map, data) ==
    {i \in IntegrationEntries(map) : OwningFile(map[i][1]) \notin RawNodeIds(data)}

\* C25: capabilities of a file without a node.  After a build, for every
\* entry with Docker integration whose key, without the "github:" prefix, is
\* the id of no file node descriptor, each of its API and tool entries has
\* its capability node and a capability edge from that path to the node.
C25_UnownedCapabilitiesAreBuilt ==
    \A g \in BuiltRuns :
        LET map == loadDataRun[g].dockerData
        IN  \A i \in UnownedEntries(map, serverElements) :
                \A e \in CapabilityEntries(<<map[i]>>) :
                    /\ \E n \in 1..Len(nodes) :
                           /\ nodes[n].id = CapabilityId(e)
                           /\ IsCapabilityNode(nodes[n])
                    /\ \E m \in 1..Len(edges) :
                           /\ edges[m].source = OwningFile(map[i][1])
                           /\ edges[m].target = CapabilityId(e)
                           /\ IsCapabilityEdge(edges[m])

(***************************************************************************)
(* Properties of the search index and of the two loaders                   *)
(***************************************************************************)
\* C26: the search index covers the base node set.  In every state the
\* index holds exactly the nodes whose ids are those of the stored nodes
\* (no index, or an empty one, only while no node is stored): every load
\* that replaces the stored nodes rebuilds it.
C26_IndexCoversBaseNodes ==
    IF fuse = <<>> THEN nodes = <<>>
    ELSE NodeIds(fuse[1]) = NodeIds(nodes)

(***************************************************************************)
(* The scanner's conversion and its composition with the builder           *)
(***************************************************************************)
MaxModules == 2

MaxDeps == 2

\* getFileDisplayName: path.basename, with the parent directory for an
\* index file.
getFileDisplayName(filePath) ==
    LET fileName == LastSegment(filePath)
        slashes  == {i \in 1..Len(filePath) : filePath[i] = "/"}
        dirname  == IF slashes = {} THEN <<".">>
                    ELSE SubSeq(filePath, 1, Max(slashes) - 1)
    IN  IF StartsWith(fileName, <<"i", "n", "d", "e", "x", ".">>)
        THEN LastSegment(dirname) \o <<"/">> \o fileName
        ELSE fileName

\* getFileType of the scanner: the patterns of directories start with "/".
getFileType(filePath) ==
    IF Includes(filePath, <<"/">> \o STR_pages) \/ Includes(filePath, <<"/">> \o STR_app)
    THEN KEY_pages
    ELSE IF Includes(filePath, <<"/">> \o STR_components) THEN KEY_components
    ELSE IF Includes(filePath, <<"/">> \o STR_utils) THEN KEY_utils
    ELSE IF Includes(filePath, <<"/">> \o STR_lib) THEN KEY_lib
    ELSE IF Includes(filePath, <<"/">> \o STR_hooks) \/ Includes(filePath, STR_use)
    THEN KEY_hooks
    ELSE IF Includes(filePath, <<"/">> \o STR_types) \/ Includes(filePath, STR_dts)
    THEN KEY_types
    ELSE IF Includes(filePath, <<"/">> \o STR_api) THEN KEY_api
    ELSE KEY_default

\* getDependencyType: dependencyTypes is an array of words.
getDependencyType(dependencyTypes) ==
    LET has(word) == \E i \in 1..Len(dependencyTypes) : dependencyTypes[i] = word
    IN  IF has("dynamic") THEN <<"d", "y", "n", "a", "m", "i", "c">>
        ELSE IF has("import") THEN <<"i", "m", "p", "o", "r", "t">>
        ELSE IF has("require") THEN <<"r", "e", "q", "u", "i", "r", "e">>
        ELSE <<"u", "n", "k", "n", "o", "w", "n">>

\* The node element of a module, pushed when the id was not processed yet.
\* acc is [cytoscapeElements, processedNodes].
PushModuleNode(acc, moduleId) ==
    IF moduleId \in acc.processedNodes THEN acc
    ELSE [cytoscapeElements |->
              Append(acc.cytoscapeElements,
                     [id |-> moduleId, label |-> getFileDisplayName(moduleId),
                      type |-> getFileType(moduleId)]),
          processedNodes |-> acc.processedNodes \cup {moduleId}]

\* module.dependencies.forEach over the first n dependencies: the target's
\* node element, then the edge element with id, source, target and type.
RECURSIVE ConvertDependencies(_, _, _, _)
ConvertDependencies(acc, moduleId, dependencies, n) ==
    IF n = 0 THEN acc
    ELSE LET before   == ConvertDependencies(acc, moduleId, dependencies, n - 1)
             targetId == dependencies[n].resolved
             withNode == PushModuleNode(before, targetId)
         IN  [withNode EXCEPT !.cytoscapeElements =
                 Append(@, [id     |-> moduleId \o STR_arrow \o targetId,
                            source |-> moduleId,
                            target |-> targetId,
                            type   |-> getDependencyType(dependencies[n].dependencyTypes)])]

\* depCruiserData.modules.forEach over the first n modules.
RECURSIVE ConvertModules(_, _, _)
ConvertModules(acc, modules, n) ==
    IF n = 0 THEN acc
    ELSE LET before == ConvertModules(acc, modules, n - 1)
             module == modules[n]
         IN  ConvertDependencies(PushModuleNode(before, module.source), module.source,
                                 module.dependencies, Len(module.dependencies))

convertToCytoscapeFormat(depCruiserData) ==
    ConvertModules([cytoscapeElements |-> <<>>, processedNodes |-> {}],
                   depCruiserData.modules, Len(depCruiserData.modules)).cytoscapeElements

\* What dependency-cruiser reports: modules with their resolved dependencies.
DependencyPool ==
    {[resolved |-> resolved, dependencyTypes |-> types] :
        resolved \in {ID_a, ID_a_a},
        types \in {<<"local", "import">>, <<"dynamic">>}}

ModulePool ==
    {[source |-> source, dependencies |-> dependencies] :
        source \in {ID_a, ID_a_a, <<"a", "/", "i", "n", "d", "e", "x", ".", "a">>},
        dependencies \in SeqsUpTo(DependencyPool, MaxDeps)}

\* The scanner runs before the page is opened and writes the elements file.
ScannerRun ==
    /\ ~mounted
    /\ serverElements = <<>>
    /\ \E modules \in SeqsUpTo(ModulePool, MaxModules) :
          serverElements' = convertToCytoscapeFormat([modules |-> modules])
    /\ UNCHANGED <<mounted, appState, dagreGraph, generation, loadDataRun, loadAnalysisRun,
                   serverDocker, view>>

InitScan == InitWith([elements |-> <<>>, docker |-> <<>>])

NextScan ==
    \/ ScannerRun
    \/ NextBuild

SpecScan == InitScan /\ [][NextScan]_vars

\* The elements the scanner emits for dependencies: id, source and target.
DependencyElements ==
    {i \in 1..Len(serverElements) :
        {"id", "source", "target"} \subseteq DOMAIN serverElements[i]}

\* C27: scanner and builder compose.  After a build from the scanner's
\* output, every dependency element has an edge with its source and target,
\* the edge list has one edge for each distinct (source, target) pair of
\* dependency elements, and no node has the id of a dependency element.
C27_ScannerEdgesBecomeEdges ==
    \A g \in BuiltRuns :
        /\ \A i \in DependencyElements :
               \E m \in 1..Len(edges) :
                   /\ edges[m].source = serverElements[i].source
                   /\ edges[m].target = serverElements[i].target
        /\ Len(edges) =
               Cardinality({<<serverElements[i].source, serverElements[i].target>> :
                               i \in DependencyElements})
        /\ \A i \in DependencyElements : serverElements[i].id \notin NodeIds(nodes)

\* C28: one snapshot of the Docker analysis map.  Whenever the current run
\* of loadData has built the graph, the map held in dockerAnalysis is the
\* map that run built the capability nodes from, whatever the order in
\* which the steps of loadData and loadAnalysisData completed.
C28_AnalysisMapIsTheBuildSnapshot ==
    \A g \in BuiltRuns :
        (g = generation /\ ~loadDataRun[g].isCancelled) =>
            dockerAnalysis = loadDataRun[g].dockerData

\* The stored edge list has an edge from source to target.
HasEdge(source, target) ==
    \E m \in 1..Len(edges) : edges[m].source = source /\ edges[m].target = target

\* C29: edges are dropped only as duplicates of their own pair.  After a
\* build, every edge descriptor of the raw elements and every capability
\* entry has an edge with its ordered (source, target) pair in the edge
\* list: none is left out because another pair concatenates to the same id.
C29_EdgeDroppedOnlyForSamePair ==
    \A g \in BuiltRuns :
        LET map == loadDataRun[g].dockerData
        IN  /\ \A i \in 1..Len(serverElements) :
                   IsEdgeDescriptor(serverElements[i]) =>
                       HasEdge(serverElements[i].source, serverElements[i].target)
            /\ \A i \in IntegrationEntries(map) :
                   \A e \in CapabilityEntries(<<map[i]>>) :
                       HasEdge(OwningFile(map[i][1]), CapabilityId(e))

(***************************************************************************)
(* Search with the results panel                                           *)
(***************************************************************************)
\* The close button of the results panel: setShowSearchResults(false).
closeSearchResults ==
    /\ mounted
    /\ showSearchResults
    /\ showSearchResults' = FALSE
    /\ UNCHANGED <<searchTerm, searchResults, highlightedNode, selectedNode,
                   activeFilters, showDockerOnly, showDockerNodes>>
    /\ UNCHANGED <<baseGraph, loaders>>

\* Terms typed into the search box of the first page: blank, matching
\* several nodes, matching one or none.
PanelSearchTerms == {<<" ">>, ID_a, <<"x">>}

\* The page with the results panel: one load, searches, and the events that
\* change the highlight and the selection.
NextSearch ==
    \/ SetMounted
    \/ \E g \in Gens : LoadDataStep(g)
    \/ \E term \in PanelSearchTerms : handleSearch(term)
    \/ selectSearchResult
    \/ closeSearchResults
    \/ onNodeClick
    \/ closeNodePanel

SpecSearch == InitView /\ [][NextSearch]_vars

\* C30: search handling with the results panel.  A step of handleSearch
\* with a blank term or without an index clears the highlight, empties the
\* result list and closes the panel; with a non-blank term that matches it
\* highlights the first result and opens the panel; with a non-blank term
\* that matches nothing it keeps the highlight; it never changes the
\* selected node.  After every step the panel is open only if the result
\* list is non-empty.
C30_SearchWithResultsPanel ==
    [][/\ showSearchResults' => searchResults' # <<>>
       /\ \A term \in PanelSearchTerms :
              handleSearch(term) =>
                  LET blank == Trim(term) = EmptyString \/ fuse = <<>>
                  IN  /\ blank => /\ highlightedNode' = Null
                                  /\ searchResults' = <<>>
                                  /\ ~showSearchResults'
                      /\ (~blank /\ FuseMatches(fuse[1], term) # <<>>) =>
                             /\ searchResults' # <<>>
                             /\ highlightedNode' = searchResults'[1].id
                             /\ showSearchResults'
                      /\ (~blank /\ FuseMatches(fuse[1], term) = <<>>) =>
                             highlightedNode' = highlightedNode
                      /\ selectedNode' = selectedNode]_vars

\* A search has matched several nodes while another node is selected: the
\* panel is open and the highlight is on the first result.
C30_Witness ==
    /\ showSearchResults
    /\ Len(searchResults) >= 2
    /\ highlightedNode = searchResults[1].id
    /\ selectedNode # <<>>
    /\ selectedNode[1].id # highlightedNode
====
